---- MODULE Spec2Model ----
(***************************************************************************)
(* Simulation core of the space shooter: GameEngine with its PhysicsEngine,*)
(* EnemySpawner, PowerUpSpawner and CollisionDetection.                    *)
(*                                                                         *)
(* Units.  Time is in milliseconds.  Velocities are in pixels per second.  *)
(* Positions and sizes are in thousandths of a pixel, so that the code's   *)
(* position += velocity * (deltaTime / 1000) is the exact integer          *)
(* position + velocity * deltaTime.                                        *)
(*                                                                         *)
(* Clock.  The code reads Date.now() only to store timestamps and to take  *)
(* differences with stored timestamps.  The model measures every timestamp *)
(* from the present reading of the clock: Date.now() is DateNow (0), the   *)
(* passing of d ms moves every stored timestamp d back (Elapse), and a     *)
(* timestamp older than MaxAge is kept at -MaxAge.                         *)
(***************************************************************************)
EXTENDS Integers, Sequences, FiniteSets, TLC

(***************************************************************************)
(* Bounds of the model                                                     *)
(***************************************************************************)
ScreenWidthPx == 120
ScreenHeightPx == 160
MaxAge == 16000
MaxPlayers == 2
MaxBullets == 3
MaxElapsed == 1000
MaxCalls == 4
MaxWave == 20
MaxPowerUps == 5
WavesMaxWave == 5
MaxHooks == 1

(***************************************************************************)
(* Units and small helpers                                                 *)
(***************************************************************************)
PX == 1000
DateNow == 0
NoTime == 1

Min(a, b) == IF a < b THEN a ELSE b
Max(a, b) == IF a > b THEN a ELSE b
Abs(a) == IF a < 0 THEN 0 - a ELSE a
Sign(a) == IF a < 0 THEN 0 - 1 ELSE IF a > 0 THEN 1 ELSE 0

RECURSIVE GCD(_, _)
GCD(a, b) == IF b = 0 THEN a ELSE GCD(b, a % b)

RECURSIVE SqrtSearch(_, _, _)
SqrtSearch(n, lo, hi) ==
  IF lo >= hi THEN lo
  ELSE LET mid == (lo + hi + 1) \div 2
       IN IF mid * mid <= n THEN SqrtSearch(n, mid, hi)
          ELSE SqrtSearch(n, lo, mid - 1)

\* Math.sqrt, rounded down to a whole number
Sqrt(n) == SqrtSearch(n, 0, 46340)

\* a / b rounded toward zero (b > 0)
DivTrunc(a, b) == Sign(a) * (Abs(a) \div b)

Vec(x, y) == [x |-> x, y |-> y]
Size(w, h) == [width |-> w, height |-> h]

screenWidth == ScreenWidthPx * PX
screenHeight == ScreenHeightPx * PX
bulletSpeed == 300

\* a timestamp after d ms have passed
Elapse(t, d) == IF t = NoTime THEN NoTime ELSE Max(t - d, 0 - MaxAge)

(***************************************************************************)
(* Math.atan2(vy, vx) + Math.PI / 2.  An angle is kept as the direction it *)
(* is the heading of: the velocity reduced by its gcd.  The literal        *)
(* rotation 0 of a new entity is the heading of a velocity pointing up.    *)
(***************************************************************************)
Rotation0 == Vec(0, 0 - 1)
Heading(v) == LET g == GCD(Abs(v.x), Abs(v.y)) IN Vec(v.x \div g, v.y \div g)

(***************************************************************************)
(* CollisionDetection                                                      *)
(***************************************************************************)
\* checkAABBCollision counting boxes that touch
checkAABBCollisionTouching(pos1, size1, pos2, size2) ==
  LET left1 == pos1.x - size1.width \div 2
      right1 == pos1.x + size1.width \div 2
      top1 == pos1.y - size1.height \div 2
      bottom1 == pos1.y + size1.height \div 2
      left2 == pos2.x - size2.width \div 2
      right2 == pos2.x + size2.width \div 2
      top2 == pos2.y - size2.height \div 2
      bottom2 == pos2.y + size2.height \div 2
  IN left1 <= right2 /\ right1 >= left2 /\ top1 <= bottom2 /\ bottom1 >= top2

checkAABBCollision(pos1, size1, pos2, size2) ==
  LET left1 == pos1.x - size1.width \div 2
      right1 == pos1.x + size1.width \div 2
      top1 == pos1.y - size1.height \div 2
      bottom1 == pos1.y + size1.height \div 2
      left2 == pos2.x - size2.width \div 2
      right2 == pos2.x + size2.width \div 2
      top2 == pos2.y - size2.height \div 2
      bottom2 == pos2.y + size2.height \div 2
  IN left1 < right2 /\ right1 > left2 /\ top1 < bottom2 /\ bottom1 > top2

\* checkCollision looking at the activity of its first argument only
checkCollisionOfActive(obj1, obj2) ==
  IF ~obj1.isActive THEN FALSE
  ELSE checkAABBCollision(obj1.position, obj1.size, obj2.position, obj2.size)

\* checkCollision without the test of isActive
checkCollisionOfAny(obj1, obj2) ==
  checkAABBCollision(obj1.position, obj1.size, obj2.position, obj2.size)

checkCollision(obj1, obj2) ==
  IF ~obj1.isActive \/ ~obj2.isActive THEN FALSE
  ELSE checkAABBCollision(obj1.position, obj1.size, obj2.position, obj2.size)

(***************************************************************************)
(* PhysicsEngine                                                           *)
(*                                                                         *)
(* Math.sin(Date.now() * 0.005) and the phase Date.now() * 0.001 * 2 of    *)
(* the circular pattern depend on the wall clock only; one update reads    *)
(* one value of each, given to it as phase.sin (the sine times 100) and    *)
(* phase.circ (cosine and sine times the radius 50).                       *)
(***************************************************************************)
SinPhases == {0 - 100, 100}
CircPhases == {Vec(50, 0), Vec(0, 50), Vec(0 - 50, 0), Vec(0, 0 - 50)}

\* updateGameObject integrating over at least one 16 ms frame
updateGameObjectMinStep(obj, deltaTime) ==
  [obj EXCEPT
     !.position = Vec(obj.position.x + obj.velocity.x * Max(deltaTime, 16),
                      obj.position.y + obj.velocity.y * Max(deltaTime, 16)),
     !.rotation = IF obj.velocity.x # 0 \/ obj.velocity.y # 0
                  THEN Heading(obj.velocity) ELSE obj.rotation]

updateGameObject(obj, deltaTime) ==
  [obj EXCEPT
     !.position = Vec(obj.position.x + obj.velocity.x * deltaTime,
                      obj.position.y + obj.velocity.y * deltaTime),
     !.rotation = IF obj.velocity.x # 0 \/ obj.velocity.y # 0
                  THEN Heading(obj.velocity) ELSE obj.rotation]

\* constrainToScreen constraining x only
constrainToScreenX(obj) ==
  LET halfWidth == obj.size.width \div 2
      cx == IF obj.position.x - halfWidth < 0
            THEN [p |-> halfWidth, v |-> 0]
            ELSE IF obj.position.x + halfWidth > screenWidth
                 THEN [p |-> screenWidth - halfWidth, v |-> 0]
                 ELSE [p |-> obj.position.x, v |-> obj.velocity.x]
  IN [obj EXCEPT !.position = Vec(cx.p, obj.position.y),
                 !.velocity = Vec(cx.v, obj.velocity.y)]

constrainToScreen(obj) ==
  LET halfWidth == obj.size.width \div 2
      halfHeight == obj.size.height \div 2
      cx == IF obj.position.x - halfWidth < 0
            THEN [p |-> halfWidth, v |-> 0]
            ELSE IF obj.position.x + halfWidth > screenWidth
                 THEN [p |-> screenWidth - halfWidth, v |-> 0]
                 ELSE [p |-> obj.position.x, v |-> obj.velocity.x]
      cy == IF obj.position.y - halfHeight < 0
            THEN [p |-> halfHeight, v |-> 0]
            ELSE IF obj.position.y + halfHeight > screenHeight
                 THEN [p |-> screenHeight - halfHeight, v |-> 0]
                 ELSE [p |-> obj.position.y, v |-> obj.velocity.y]
  IN [obj EXCEPT !.position = Vec(cx.p, cy.p), !.velocity = Vec(cx.v, cy.v)]

margin == 100 * PX

\* isOnScreen keeping an object that is exactly on an edge
isOnScreenOrEdge(obj) ==
  /\ obj.position.x >= 0 - margin
  /\ obj.position.x <= screenWidth + margin
  /\ obj.position.y >= 0 - margin
  /\ obj.position.y <= screenHeight + margin

isOnScreen(obj) ==
  /\ obj.position.x > 0 - margin
  /\ obj.position.x < screenWidth + margin
  /\ obj.position.y > 0 - margin
  /\ obj.position.y < screenHeight + margin

getEnemyShootInterval(enemyType) ==
  CASE enemyType = "basic" -> 2000
    [] enemyType = "fast" -> 1500
    [] enemyType = "heavy" -> 3000
    [] enemyType = "boss" -> 1000
    [] OTHER -> 2000

createEnemyBullet(enemy) ==
  [position |-> Vec(enemy.position.x, enemy.position.y + enemy.size.height \div 2),
   velocity |-> Vec(0, 150),
   size |-> Size(6 * PX, 12 * PX),
   rotation |-> Rotation0,
   health |-> 1,
   maxHealth |-> 1,
   isActive |-> TRUE,
   damage |-> 10,
   ownerId |-> "enemy",
   bulletType |-> "enemyBasic"]

\* squared distance, in tenths of a pixel (every coordinate of the model is
\* a multiple of a tenth of a pixel)
Dist2(a, b) ==
  LET dx == (a.x - b.x) \div 100
      dy == (a.y - b.y) \div 100
  IN dx * dx + dy * dy

RECURSIVE findNearestFrom(_, _, _, _)
findNearestFrom(enemy, players, i, best) ==
  IF i > Len(players) THEN best
  ELSE IF players[i].isActive
          /\ (best = 0 \/ Dist2(players[i].position, enemy.position)
                          < Dist2(players[best].position, enemy.position))
       THEN findNearestFrom(enemy, players, i + 1, i)
       ELSE findNearestFrom(enemy, players, i + 1, best)

\* index of the nearest active player, 0 when there is none
findNearestPlayer(enemy, players) == findNearestFrom(enemy, players, 1, 0)

homingSpeed == 100

\* (dx / distance) * homingSpeed, rounded toward zero to a whole pixel per
\* second; the distance is taken to an eighth of a tenth of a pixel
homingVelocity(enemy, target) ==
  LET dx == (target.position.x - enemy.position.x) \div 100
      dy == (target.position.y - enemy.position.y) \div 100
      distance8 == Sqrt(64 * (dx * dx + dy * dy))
  IN IF dx = 0 /\ dy = 0 THEN enemy.velocity
     ELSE Vec(DivTrunc(8 * homingSpeed * dx, distance8),
              DivTrunc(8 * homingSpeed * dy, distance8))

enemyBehaviorVelocity(enemy, players, phase) ==
  CASE enemy.attackPattern = "straight" -> enemy.velocity
    [] enemy.attackPattern = "zigzag" -> Vec(phase.sin, enemy.velocity.y)
    [] enemy.attackPattern = "circular" -> Vec(phase.circ.x, phase.circ.y + 50)
    [] enemy.attackPattern = "homing" ->
         LET nearestPlayer == findNearestPlayer(enemy, players)
         IN IF nearestPlayer = 0 THEN enemy.velocity
            ELSE homingVelocity(enemy, players[nearestPlayer])
    [] OTHER -> enemy.velocity

\* handleEnemyShooting firing as soon as the interval has passed
handleEnemyShootingOnTime(enemy) ==
  LET lastShotTime == IF enemy.lastShotTime = NoTime THEN DateNow
                      ELSE enemy.lastShotTime
      fires == DateNow - lastShotTime >= getEnemyShootInterval(enemy.enemyType)
  IN [enemy |-> [enemy EXCEPT !.lastShotTime = IF fires THEN DateNow ELSE lastShotTime],
      fires |-> fires]

\* the enemy after handleEnemyShooting, and whether it fired
handleEnemyShooting(enemy) ==
  LET lastShotTime == IF enemy.lastShotTime = NoTime THEN DateNow
                      ELSE enemy.lastShotTime
      fires == DateNow - lastShotTime > getEnemyShootInterval(enemy.enemyType)
  IN [enemy |-> [enemy EXCEPT !.lastShotTime = IF fires THEN DateNow ELSE lastShotTime],
      fires |-> fires]

\* the enemy after updateEnemyBehavior, and the bullet it fired, if any
updateEnemyBehavior(enemy, players, phase) ==
  LET steered == [enemy EXCEPT !.velocity = enemyBehaviorVelocity(enemy, players, phase)]
      shot == handleEnemyShooting(steered)
  IN [enemy |-> shot.enemy,
      bullets |-> IF shot.fires THEN <<createEnemyBullet(shot.enemy)>> ELSE <<>>]

physicsPlayer(player, deltaTime) ==
  IF player.isActive THEN constrainToScreen(updateGameObject(player, deltaTime))
  ELSE player

\* one enemy of the enemies loop: the enemy afterwards and the bullets it
\* pushed
physicsEnemy(enemy, players, deltaTime, phase) ==
  IF ~enemy.isActive THEN [enemy |-> enemy, bullets |-> <<>>]
  ELSE LET moved == updateGameObject(enemy, deltaTime)
           behaved == updateEnemyBehavior(moved, players, phase)
       IN [enemy |-> [behaved.enemy EXCEPT !.isActive = isOnScreen(behaved.enemy)],
           bullets |-> behaved.bullets]

physicsBullet(bullet, deltaTime) ==
  IF ~bullet.isActive THEN bullet
  ELSE LET moved == updateGameObject(bullet, deltaTime)
       IN [moved EXCEPT !.isActive = isOnScreen(moved)]

\* the floating animation adds Math.sin(Date.now() * 0.005) * 0.5 pixels
physicsPowerUp(powerUp, deltaTime, phase) ==
  IF ~powerUp.isActive THEN powerUp
  ELSE LET moved == updateGameObject(powerUp, deltaTime)
           floated == [moved EXCEPT !.position.y = moved.position.y + phase.sin * 5]
       IN [floated EXCEPT !.isActive = isOnScreen(floated)]

RECURSIVE enemyBulletsFrom(_, _, _, _, _)
enemyBulletsFrom(enemies, players, deltaTime, phase, i) ==
  IF i > Len(enemies) THEN <<>>
  ELSE physicsEnemy(enemies[i], players, deltaTime, phase).bullets
       \o enemyBulletsFrom(enemies, players, deltaTime, phase, i + 1)

\* PhysicsEngine.update: players, then enemies (their bullets are pushed
\* before the bullets loop runs), then bullets, then power-ups
physicsUpdate(g, deltaTime, phase) ==
  LET players == [i \in 1..Len(g.players) |-> physicsPlayer(g.players[i], deltaTime)]
      enemies == [i \in 1..Len(g.enemies) |->
                    physicsEnemy(g.enemies[i], players, deltaTime, phase).enemy]
      pushed == g.bullets \o enemyBulletsFrom(g.enemies, players, deltaTime, phase, 1)
      bullets == [i \in 1..Len(pushed) |-> physicsBullet(pushed[i], deltaTime)]
      powerUps == [i \in 1..Len(g.powerUps) |->
                     physicsPowerUp(g.powerUps[i], deltaTime, phase)]
  IN [g EXCEPT !.players = players, !.enemies = enemies,
               !.bullets = bullets, !.powerUps = powerUps]

(***************************************************************************)
(* EnemySpawner                                                            *)
(*                                                                         *)
(* spawnInterval and timeBetweenWaves are doubles that the code multiplies *)
(* by 0.9 and 0.95; the model keeps them in thousandths of a millisecond,  *)
(* rounded to the nearest thousandth at each multiplication.  The          *)
(* multipliers 1 + (wave - 1) * 0.1 and 1 + (wave - 1) * 0.15 are taken in *)
(* hundredths; doubleSlip lists the waves at which the double product      *)
(* falls just below the whole number the exact product has.                *)
(***************************************************************************)
Milli == 1000

newEnemySpawner ==
  [lastSpawnTime |-> DateNow,
   spawnInterval |-> 2000 * Milli,
   waveNumber |-> 1,
   enemiesInCurrentWave |-> 0,
   maxEnemiesPerWave |-> 5,
   timeBetweenWaves |-> 5000 * Milli,
   lastWaveTime |-> DateNow,
   bossSpawned |-> FALSE]

activeCount(objs) == Cardinality({i \in 1..Len(objs) : objs[i].isActive})

\* shouldStartNewWave not counting the active enemies
shouldStartNewWaveWithEnemies(es, g) ==
  LET timeSinceLastWave == DateNow - es.lastWaveTime
  IN /\ timeSinceLastWave * Milli > es.timeBetweenWaves
     /\ es.enemiesInCurrentWave >= es.maxEnemiesPerWave

\* shouldStartNewWave asking for more enemies than the wave spawns
shouldStartNewWaveBeyondQuota(es, g) ==
  LET activeEnemies == activeCount(g.enemies)
      timeSinceLastWave == DateNow - es.lastWaveTime
  IN /\ activeEnemies = 0
     /\ timeSinceLastWave * Milli > es.timeBetweenWaves
     /\ es.enemiesInCurrentWave > es.maxEnemiesPerWave

shouldStartNewWave(es, g) ==
  LET activeEnemies == activeCount(g.enemies)
      timeSinceLastWave == DateNow - es.lastWaveTime
  IN /\ activeEnemies = 0
     /\ timeSinceLastWave * Milli > es.timeBetweenWaves
     /\ es.enemiesInCurrentWave >= es.maxEnemiesPerWave

\* scaleDifficulty without the floor of the spawn interval
scaleDifficultyUnfloored(es) ==
  [es EXCEPT
     !.spawnInterval = (es.spawnInterval * 9 + 5) \div 10,
     !.maxEnemiesPerWave = Min(15, es.maxEnemiesPerWave + 1),
     !.timeBetweenWaves = Max(2000 * Milli, (es.timeBetweenWaves * 95 + 50) \div 100)]

scaleDifficulty(es) ==
  [es EXCEPT
     !.spawnInterval = Max(500 * Milli, (es.spawnInterval * 9 + 5) \div 10),
     !.maxEnemiesPerWave = Min(15, es.maxEnemiesPerWave + 1),
     !.timeBetweenWaves = Max(2000 * Milli, (es.timeBetweenWaves * 95 + 50) \div 100)]

\* startNewWave without the reset of the per-wave counter
startNewWaveKeepingCount(es) ==
  scaleDifficulty([es EXCEPT !.waveNumber = es.waveNumber + 1,
                             !.lastWaveTime = DateNow,
                             !.bossSpawned = FALSE])

startNewWave(es) ==
  scaleDifficulty([es EXCEPT !.waveNumber = es.waveNumber + 1,
                             !.enemiesInCurrentWave = 0,
                             !.lastWaveTime = DateNow,
                             !.bossSpawned = FALSE])

\* shouldSpawnBoss without the test of bossSpawned
shouldSpawnBossAgain(es) ==
  /\ es.waveNumber % 5 = 0
  /\ es.enemiesInCurrentWave * 10 >= es.maxEnemiesPerWave * 8

\* enemiesInCurrentWave >= maxEnemiesPerWave * 0.8
shouldSpawnBoss(es) ==
  /\ es.waveNumber % 5 = 0
  /\ ~es.bossSpawned
  /\ es.enemiesInCurrentWave * 10 >= es.maxEnemiesPerWave * 8

shouldSpawnEnemy(es) == (DateNow - es.lastSpawnTime) * Milli > es.spawnInterval

\* getAvailableEnemyTypes unlocking the fast enemy from the first wave on
getAvailableEnemyTypesEarly(es) ==
  <<"basic", "fast">> \o (IF es.waveNumber >= 3 THEN <<"heavy">> ELSE <<>>)

getAvailableEnemyTypes(es) ==
  <<"basic">> \o (IF es.waveNumber >= 2 THEN <<"fast">> ELSE <<>>)
              \o (IF es.waveNumber >= 3 THEN <<"heavy">> ELSE <<>>)

doubleSlip(base, per, wave) ==
  \/ base = 25 /\ per = 10 /\ wave = 37
  \/ base = 200 /\ per = 15 /\ wave \in {2, 8, 10, 24, 25}
  \/ base = 30 /\ per = 15 /\ wave \in {19, 37}

\* the product rounded up
scaledUp(base, per, wave) == (base * (100 + per * (wave - 1)) + 99) \div 100

\* Math.floor(base * (1 + (wave - 1) * per / 100))
scaled(base, per, wave) ==
  (base * (100 + per * (wave - 1))) \div 100 - (IF doubleSlip(base, per, wave) THEN 1 ELSE 0)

getEnemyStats(type, wave) ==
  CASE type = "basic" ->
         [health |-> scaled(10, 10, wave), damage |-> scaled(10, 10, wave),
          speed |-> 80 + wave * 5, points |-> 100, size |-> Size(30 * PX, 30 * PX)]
    [] type = "fast" ->
         [health |-> scaled(5, 10, wave), damage |-> scaled(8, 10, wave),
          speed |-> 150 + wave * 8, points |-> 150, size |-> Size(25 * PX, 25 * PX)]
    [] type = "heavy" ->
         [health |-> scaled(25, 10, wave), damage |-> scaled(20, 10, wave),
          speed |-> 50 + wave * 3, points |-> 300, size |-> Size(40 * PX, 40 * PX)]
    [] OTHER ->
         [health |-> scaled(10, 10, wave), damage |-> scaled(10, 10, wave),
          speed |-> 80, points |-> 100, size |-> Size(30 * PX, 30 * PX)]

getBossStats(wave) ==
  [health |-> scaled(200, 15, wave), damage |-> scaled(30, 15, wave),
   points |-> 1000 * (wave \div 5), size |-> Size(80 * PX, 80 * PX)]

\* the patterns getRandomAttackPattern can return for a type
attackPatterns(type) ==
  CASE type = "basic" -> {"straight", "zigzag"}
    [] type = "fast" -> {"straight", "zigzag"}
    [] type = "heavy" -> {"straight", "homing"}
    [] type = "boss" -> {"circular"}
    [] OTHER -> {"straight"}

\* the x of getRandomSpawnPosition: Math.random() * (screenWidth - 60) + 30
SpawnXs == {screenWidth \div 2}

createEnemy(es, type, x, pattern) ==
  LET baseStats == getEnemyStats(type, es.waveNumber)
  IN [position |-> Vec(x, 0 - 30 * PX),
      velocity |-> Vec(0, baseStats.speed),
      size |-> baseStats.size,
      rotation |-> Rotation0,
      health |-> baseStats.health,
      maxHealth |-> baseStats.health,
      isActive |-> TRUE,
      enemyType |-> type,
      damage |-> baseStats.damage,
      points |-> baseStats.points,
      attackPattern |-> pattern,
      lastShotTime |-> NoTime]

createBoss(es) ==
  LET bossStats == getBossStats(es.waveNumber)
  IN [position |-> Vec(screenWidth \div 2, 0 - 50 * PX),
      velocity |-> Vec(0, 30),
      size |-> bossStats.size,
      rotation |-> Rotation0,
      health |-> bossStats.health,
      maxHealth |-> bossStats.health,
      isActive |-> TRUE,
      enemyType |-> "boss",
      damage |-> bossStats.damage,
      points |-> bossStats.points,
      attackPattern |-> "circular",
      lastShotTime |-> NoTime]

\* the spawner at the point of update where the regular enemy is created
beforeRegularSpawn(es, g) ==
  LET es1 == IF shouldStartNewWave(es, g) THEN startNewWave(es) ELSE es
  IN IF shouldSpawnBoss(es1) THEN [es1 EXCEPT !.bossSpawned = TRUE] ELSE es1

spawnsRegular(es, g) ==
  LET es2 == beforeRegularSpawn(es, g)
  IN shouldSpawnEnemy(es2) /\ es2.enemiesInCurrentWave < es2.maxEnemiesPerWave

NoEnemyDraw == [type |-> "basic", x |-> 30 * PX, pattern |-> "straight"]

\* the random draws of one EnemySpawner.update: the type, spawn x and
\* attack pattern of the regular enemy it creates (one fixed draw when it
\* creates none)
EnemyDraws(es, g) ==
  IF ~spawnsRegular(es, g) THEN {NoEnemyDraw}
  ELSE LET types == getAvailableEnemyTypes(beforeRegularSpawn(es, g))
       IN UNION {{[type |-> types[k], x |-> x, pattern |-> pat] :
                    x \in SpawnXs, pat \in attackPatterns(types[k])} :
                 k \in 1..Len(types)}

\* the regular spawn of update without the test of the quota
enemySpawnerUpdateBeyondQuota(es, g, draw) ==
  LET es1 == IF shouldStartNewWave(es, g) THEN startNewWave(es) ELSE es
      boss == shouldSpawnBoss(es1)
      es2 == IF boss THEN [es1 EXCEPT !.bossSpawned = TRUE] ELSE es1
      regular == shouldSpawnEnemy(es2)
      es3 == IF regular
             THEN [es2 EXCEPT !.enemiesInCurrentWave = es2.enemiesInCurrentWave + 1,
                              !.lastSpawnTime = DateNow]
             ELSE es2
  IN [es |-> es3,
      newEnemies |-> (IF boss THEN <<createBoss(es1)>> ELSE <<>>)
                     \o (IF regular
                         THEN <<createEnemy(es2, draw.type, draw.x, draw.pattern)>>
                         ELSE <<>>)]

\* EnemySpawner.update: the spawner afterwards and the enemies it returns
enemySpawnerUpdate(es, g, draw) ==
  LET es1 == IF shouldStartNewWave(es, g) THEN startNewWave(es) ELSE es
      boss == shouldSpawnBoss(es1)
      es2 == IF boss THEN [es1 EXCEPT !.bossSpawned = TRUE] ELSE es1
      regular == shouldSpawnEnemy(es2) /\ es2.enemiesInCurrentWave < es2.maxEnemiesPerWave
      es3 == IF regular
             THEN [es2 EXCEPT !.enemiesInCurrentWave = es2.enemiesInCurrentWave + 1,
                              !.lastSpawnTime = DateNow]
             ELSE es2
  IN [es |-> es3,
      newEnemies |-> (IF boss THEN <<createBoss(es1)>> ELSE <<>>)
                     \o (IF regular
                         THEN <<createEnemy(es2, draw.type, draw.x, draw.pattern)>>
                         ELSE <<>>)]

\* EnemySpawner.reset
reset(es) ==
  [es EXCEPT !.waveNumber = 1,
             !.enemiesInCurrentWave = 0,
             !.maxEnemiesPerWave = 5,
             !.spawnInterval = 2000 * Milli,
             !.timeBetweenWaves = 5000 * Milli,
             !.lastSpawnTime = DateNow,
             !.lastWaveTime = DateNow,
             !.bossSpawned = FALSE]

\* EnemySpawner.setDifficulty; the switch has no default case
setDifficulty(es, difficulty) ==
  CASE difficulty = "easy" ->
         [es EXCEPT !.spawnInterval = 3000 * Milli, !.maxEnemiesPerWave = 3]
    [] difficulty = "medium" ->
         [es EXCEPT !.spawnInterval = 2000 * Milli, !.maxEnemiesPerWave = 5]
    [] difficulty = "hard" ->
         [es EXCEPT !.spawnInterval = 1500 * Milli, !.maxEnemiesPerWave = 7]
    [] difficulty = "expert" ->
         [es EXCEPT !.spawnInterval = 1000 * Milli, !.maxEnemiesPerWave = 10]
    [] OTHER -> es

(***************************************************************************)
(* PowerUpSpawner.  effect.value is kept in tenths (speed boost 1.5).      *)
(***************************************************************************)
newPowerUpSpawner ==
  [lastSpawnTime |-> DateNow, spawnInterval |-> 15000, spawnChance |-> 30]

PowerUpTypes == {"health", "weaponUpgrade", "shield", "speedBoost", "scoreMultiplier"}

\* the types that the model lets createRandomPowerUp draw
PowerUpTypeDraws == {"health", "shield"}

getPowerUpStats(type) ==
  CASE type = "health" ->
         [size |-> Size(25 * PX, 25 * PX), duration |-> 0,
          effect |-> [type |-> "health", value |-> 500, duration |-> 0]]
    [] type = "weaponUpgrade" ->
         [size |-> Size(30 * PX, 30 * PX), duration |-> 10000,
          effect |-> [type |-> "weaponUpgrade", value |-> 10, duration |-> 10000]]
    [] type = "shield" ->
         [size |-> Size(28 * PX, 28 * PX), duration |-> 8000,
          effect |-> [type |-> "shield", value |-> 1000, duration |-> 8000]]
    [] type = "speedBoost" ->
         [size |-> Size(26 * PX, 26 * PX), duration |-> 6000,
          effect |-> [type |-> "speedBoost", value |-> 15, duration |-> 6000]]
    [] type = "scoreMultiplier" ->
         [size |-> Size(32 * PX, 32 * PX), duration |-> 12000,
          effect |-> [type |-> "scoreMultiplier", value |-> 20, duration |-> 12000]]
    [] OTHER ->
         [size |-> Size(25 * PX, 25 * PX), duration |-> 0,
          effect |-> [type |-> "health", value |-> 250, duration |-> 0]]

createPowerUp(type, x) ==
  LET stats == getPowerUpStats(type)
  IN [position |-> Vec(x, 0 - 30 * PX),
      velocity |-> Vec(0, 50),
      size |-> stats.size,
      rotation |-> Rotation0,
      health |-> 1,
      maxHealth |-> 1,
      isActive |-> TRUE,
      powerUpType |-> type,
      duration |-> stats.duration,
      effect |-> stats.effect]

\* spawnSpecificPowerUp computes position || getRandomSpawnPosition() and
\* then calls createPowerUp(type), which draws a spawn position of its own
spawnSpecificPowerUp(type, position, x) == createPowerUp(type, x)

\* the random draws of one spawnBossDefeatReward: the two chances and the x
\* of the spawn position of each power-up created
RewardDraws ==
  {[weapon |-> w, score |-> m, xs |-> <<x1, x2, x3>>] :
     w \in BOOLEAN, m \in BOOLEAN, x1 \in SpawnXs, x2 \in SpawnXs, x3 \in SpawnXs}

spawnBossDefeatReward(bossPosition, draw) ==
  <<spawnSpecificPowerUp("health", Vec(bossPosition.x - 30 * PX, bossPosition.y),
                         draw.xs[1])>>
  \o (IF draw.weapon
      THEN <<spawnSpecificPowerUp("weaponUpgrade",
                                  Vec(bossPosition.x + 30 * PX, bossPosition.y),
                                  draw.xs[2])>>
      ELSE <<>>)
  \o (IF draw.score
      THEN <<spawnSpecificPowerUp("scoreMultiplier",
                                  Vec(bossPosition.x, bossPosition.y + 30 * PX),
                                  draw.xs[3])>>
      ELSE <<>>)

\* mayspawnPowerUp letting a fourth active power-up in
mayspawnPowerUpBeyondCap(ps, g) ==
  /\ ~(DateNow - ps.lastSpawnTime < ps.spawnInterval)
  /\ ~(activeCount(g.powerUps) > 3)

\* shouldSpawnPowerUp but for the random draw against spawnChance
mayspawnPowerUp(ps, g) ==
  /\ ~(DateNow - ps.lastSpawnTime < ps.spawnInterval)
  /\ ~(activeCount(g.powerUps) >= 3)

NoPowerUpDraw == [chance |-> FALSE, type |-> "health", x |-> 30 * PX]

\* the random draws of one PowerUpSpawner.update: whether Math.random() is
\* below spawnChance, and the type and spawn x of the power-up
PowerUpDraws(ps, g) ==
  IF ~mayspawnPowerUp(ps, g) THEN {NoPowerUpDraw}
  ELSE {NoPowerUpDraw} \cup
       {[chance |-> TRUE, type |-> t, x |-> x] : t \in PowerUpTypeDraws, x \in SpawnXs}

shouldSpawnPowerUp(ps, g, draw) == mayspawnPowerUp(ps, g) /\ draw.chance

powerUpSpawnerUpdate(ps, g, draw) ==
  IF shouldSpawnPowerUp(ps, g, draw)
  THEN [ps |-> [ps EXCEPT !.lastSpawnTime = DateNow],
        newPowerUps |-> <<createPowerUp(draw.type, draw.x)>>]
  ELSE [ps |-> ps, newPowerUps |-> <<>>]

(***************************************************************************)
(* GameEngine: state and pure steps                                        *)
(***************************************************************************)
initializeGameState ==
  [players |-> <<>>, enemies |-> <<>>, bullets |-> <<>>, powerUps |-> <<>>,
   explosions |-> <<>>, score |-> 0, level |-> 1, wave |-> 1,
   enemiesKilled |-> 0, powerUpsCollected |-> 0, accuracy |-> 0,
   gameStatus |-> "menu", isPaused |-> FALSE, timeElapsed |-> 0,
   isMultiplayer |-> FALSE]

playerIndex(g, playerId) ==
  IF \E i \in 1..Len(g.players) : g.players[i].playerId = playerId
  THEN CHOOSE i \in 1..Len(g.players) :
         /\ g.players[i].playerId = playerId
         /\ \A k \in 1..(i - 1) : g.players[k].playerId # playerId
  ELSE 0

createBullet(g, position, velocity, ownerId, bulletType) ==
  [position |-> position,
   velocity |-> velocity,
   size |-> Size(4 * PX, 10 * PX),
   rotation |-> Rotation0,
   health |-> 1,
   maxHealth |-> 1,
   isActive |-> TRUE,
   damage |-> 10,
   ownerId |-> ownerId,
   bulletType |-> bulletType]

createPlayerBullets(g, player) ==
  LET basePosition == Vec(player.position.x, player.position.y - player.size.height \div 2)
      spread(i) == createBullet(g, Vec(basePosition.x + i * 10 * PX, basePosition.y),
                                Vec(i * 50, 0 - bulletSpeed), player.playerId, "playerBasic")
  IN CASE player.weaponType = "basic" ->
            <<createBullet(g, basePosition, Vec(0, 0 - bulletSpeed),
                           player.playerId, "playerBasic")>>
       [] player.weaponType = "spreadShot" -> <<spread(0 - 1), spread(0), spread(1)>>
       [] OTHER -> <<>>

createExplosion(g, position, size) ==
  [g EXCEPT !.explosions = Append(g.explosions,
     [position |-> position, size |-> Size(size, size), duration |-> 500,
      currentFrame |-> 0, animationProgress |-> 0])]

\* handlePlayerEnemyCollision keeping the player active with no life left
handlePlayerEnemyCollisionSpare(g, i, j) ==
  LET player == g.players[i]
      enemy == g.enemies[j]
      health == player.health - enemy.damage
      hit == IF health <= 0
             THEN [player EXCEPT !.lives = player.lives - 1,
                                 !.health = player.maxHealth,
                                 !.isActive = ~(player.lives - 1 < 0)]
             ELSE [player EXCEPT !.health = health]
  IN createExplosion([g EXCEPT !.players[i] = hit, !.enemies[j].isActive = FALSE],
                     enemy.position, 30 * PX)

\* handlePlayerEnemyCollision scoring the enemy it destroys
handlePlayerEnemyCollisionScoring(g, i, j) ==
  LET player == g.players[i]
      enemy == g.enemies[j]
      health == player.health - enemy.damage
      hit == IF health <= 0
             THEN [player EXCEPT !.lives = player.lives - 1,
                                 !.health = player.maxHealth,
                                 !.isActive = ~(player.lives - 1 <= 0)]
             ELSE [player EXCEPT !.health = health]
  IN createExplosion([g EXCEPT !.players[i] = hit, !.enemies[j].isActive = FALSE,
                               !.score = g.score + enemy.points],
                     enemy.position, 30 * PX)

\* handlePlayerEnemyCollision losing a life only when health falls below 0
handlePlayerEnemyCollisionStrict(g, i, j) ==
  LET player == g.players[i]
      enemy == g.enemies[j]
      health == player.health - enemy.damage
      hit == IF health < 0
             THEN [player EXCEPT !.lives = player.lives - 1,
                                 !.health = player.maxHealth,
                                 !.isActive = ~(player.lives - 1 <= 0)]
             ELSE [player EXCEPT !.health = health]
  IN createExplosion([g EXCEPT !.players[i] = hit, !.enemies[j].isActive = FALSE],
                     enemy.position, 30 * PX)

\* handlePlayerEnemyCollision deactivating only an enemy of 10 health or less
handlePlayerEnemyCollisionLingering(g, i, j) ==
  LET player == g.players[i]
      enemy == g.enemies[j]
      health == player.health - enemy.damage
      hit == IF health <= 0
             THEN [player EXCEPT !.lives = player.lives - 1,
                                 !.health = player.maxHealth,
                                 !.isActive = ~(player.lives - 1 <= 0)]
             ELSE [player EXCEPT !.health = health]
  IN createExplosion([g EXCEPT !.players[i] = hit,
                               !.enemies[j].isActive = ~(enemy.health <= 10)],
                     enemy.position, 30 * PX)

\* handlePlayerEnemyCollision counting the enemy it destroys
handlePlayerEnemyCollisionCounting(g, i, j) ==
  LET player == g.players[i]
      enemy == g.enemies[j]
      health == player.health - enemy.damage
      hit == IF health <= 0
             THEN [player EXCEPT !.lives = player.lives - 1,
                                 !.health = player.maxHealth,
                                 !.isActive = ~(player.lives - 1 <= 0)]
             ELSE [player EXCEPT !.health = health]
  IN createExplosion([g EXCEPT !.players[i] = hit, !.enemies[j].isActive = FALSE,
                               !.enemiesKilled = g.enemiesKilled + 1],
                     enemy.position, 30 * PX)

handlePlayerEnemyCollision(g, i, j) ==
  LET player == g.players[i]
      enemy == g.enemies[j]
      health == player.health - enemy.damage
      hit == IF health <= 0
             THEN [player EXCEPT !.lives = player.lives - 1,
                                 !.health = player.maxHealth,
                                 !.isActive = ~(player.lives - 1 <= 0)]
             ELSE [player EXCEPT !.health = health]
  IN createExplosion([g EXCEPT !.players[i] = hit, !.enemies[j].isActive = FALSE],
                     enemy.position, 30 * PX)

\* handleBulletEnemyCollision scoring every hit, not only the last
handleBulletEnemyCollisionScoringHits(g, b, j) ==
  LET bullet == g.bullets[b]
      enemy == g.enemies[j]
      health == enemy.health - bullet.damage
      g1 == [g EXCEPT !.enemies[j].health = health, !.bullets[b].isActive = FALSE,
                      !.score = g.score + enemy.points]
  IN IF health <= 0
     THEN createExplosion([g1 EXCEPT !.enemies[j].isActive = FALSE],
                          enemy.position, 25 * PX)
     ELSE g1

\* handleBulletEnemyCollision leaving the bullet active
handleBulletEnemyCollisionPiercing(g, b, j) ==
  LET bullet == g.bullets[b]
      enemy == g.enemies[j]
      health == enemy.health - bullet.damage
      g1 == [g EXCEPT !.enemies[j].health = health]
  IN IF health <= 0
     THEN createExplosion([g1 EXCEPT !.enemies[j].isActive = FALSE,
                                     !.score = g.score + enemy.points],
                          enemy.position, 25 * PX)
     ELSE g1

handleBulletEnemyCollision(g, b, j) ==
  LET bullet == g.bullets[b]
      enemy == g.enemies[j]
      health == enemy.health - bullet.damage
      g1 == [g EXCEPT !.enemies[j].health = health, !.bullets[b].isActive = FALSE]
  IN IF health <= 0
     THEN createExplosion([g1 EXCEPT !.enemies[j].isActive = FALSE,
                                     !.score = g.score + enemy.points],
                          enemy.position, 25 * PX)
     ELSE g1

\* handleBulletPlayerCollision with an explosion where the player is hit
handleBulletPlayerCollisionExploding(g, b, i) ==
  LET bullet == g.bullets[b]
      player == g.players[i]
      health == player.health - bullet.damage
      hit == IF health <= 0
             THEN [player EXCEPT !.lives = player.lives - 1,
                                 !.health = player.maxHealth,
                                 !.isActive = ~(player.lives - 1 <= 0)]
             ELSE [player EXCEPT !.health = health]
  IN createExplosion([g EXCEPT !.players[i] = hit, !.bullets[b].isActive = FALSE],
                     player.position, 25 * PX)

\* handleBulletPlayerCollision restoring the health only when a life is left
handleBulletPlayerCollisionDraining(g, b, i) ==
  LET bullet == g.bullets[b]
      player == g.players[i]
      health == player.health - bullet.damage
      hit == IF health <= 0
             THEN [player EXCEPT !.lives = player.lives - 1,
                                 !.health = IF player.lives - 1 <= 0 THEN health
                                            ELSE player.maxHealth,
                                 !.isActive = ~(player.lives - 1 <= 0)]
             ELSE [player EXCEPT !.health = health]
  IN [g EXCEPT !.players[i] = hit, !.bullets[b].isActive = FALSE]

handleBulletPlayerCollision(g, b, i) ==
  LET bullet == g.bullets[b]
      player == g.players[i]
      health == player.health - bullet.damage
      hit == IF health <= 0
             THEN [player EXCEPT !.lives = player.lives - 1,
                                 !.health = player.maxHealth,
                                 !.isActive = ~(player.lives - 1 <= 0)]
             ELSE [player EXCEPT !.health = health]
  IN [g EXCEPT !.players[i] = hit, !.bullets[b].isActive = FALSE]

\* applyPowerUp adding the value of a health power-up without Math.min
applyPowerUpUncapped(player, powerUp) ==
  IF powerUp.powerUpType = "health"
  THEN [player EXCEPT !.health = player.health + powerUp.effect.value \div 10]
  ELSE player

applyPowerUp(player, powerUp) ==
  IF powerUp.powerUpType = "health"
  THEN [player EXCEPT !.health = Min(player.health + powerUp.effect.value \div 10,
                                     player.maxHealth)]
  ELSE player

handlePlayerPowerUpCollision(g, i, k) ==
  [g EXCEPT !.powerUps[k].isActive = FALSE,
            !.players[i] = applyPowerUp(g.players[i], g.powerUps[k])]

\* The four nested forEach loops of handleCollisions.  n counts the pairs
\* already visited: the outer index is n \div (inner length) + 1.
RECURSIVE playerEnemyLoop(_, _)
playerEnemyLoop(g, n) ==
  IF n >= Len(g.players) * Len(g.enemies) THEN g
  ELSE LET i == (n \div Len(g.enemies)) + 1
           j == (n % Len(g.enemies)) + 1
       IN playerEnemyLoop(IF checkCollision(g.players[i], g.enemies[j])
                          THEN handlePlayerEnemyCollision(g, i, j) ELSE g, n + 1)

startsWith(bulletType, prefix) ==
  IF prefix = "player" THEN bulletType \in {"playerBasic", "playerRapid", "playerLaser"}
  ELSE bulletType \in {"enemyBasic", "enemyHeavy"}

RECURSIVE bulletEnemyLoop(_, _)
bulletEnemyLoop(g, n) ==
  IF n >= Len(g.bullets) * Len(g.enemies) THEN g
  ELSE LET b == (n \div Len(g.enemies)) + 1
           j == (n % Len(g.enemies)) + 1
       IN bulletEnemyLoop(IF startsWith(g.bullets[b].bulletType, "player")
                             /\ checkCollision(g.bullets[b], g.enemies[j])
                          THEN handleBulletEnemyCollision(g, b, j) ELSE g, n + 1)

RECURSIVE bulletPlayerLoop(_, _)
bulletPlayerLoop(g, n) ==
  IF n >= Len(g.bullets) * Len(g.players) THEN g
  ELSE LET b == (n \div Len(g.players)) + 1
           i == (n % Len(g.players)) + 1
       IN bulletPlayerLoop(IF startsWith(g.bullets[b].bulletType, "enemy")
                              /\ checkCollision(g.bullets[b], g.players[i])
                           THEN handleBulletPlayerCollision(g, b, i) ELSE g, n + 1)

RECURSIVE playerPowerUpLoop(_, _)
playerPowerUpLoop(g, n) ==
  IF n >= Len(g.players) * Len(g.powerUps) THEN g
  ELSE LET i == (n \div Len(g.powerUps)) + 1
           k == (n % Len(g.powerUps)) + 1
       IN playerPowerUpLoop(IF checkCollision(g.players[i], g.powerUps[k])
                            THEN handlePlayerPowerUpCollision(g, i, k) ELSE g, n + 1)

handleCollisions(g) ==
  playerPowerUpLoop(bulletPlayerLoop(bulletEnemyLoop(playerEnemyLoop(g, 0), 0), 0), 0)

isActiveObj(obj) == obj.isActive

\* cleanupInactiveObjects leaving the bullets as they are
cleanupInactiveObjectsKeepingBullets(g) ==
  [g EXCEPT !.players = SelectSeq(g.players, isActiveObj),
            !.enemies = SelectSeq(g.enemies, isActiveObj),
            !.powerUps = SelectSeq(g.powerUps, isActiveObj)]

cleanupInactiveObjects(g) ==
  [g EXCEPT !.players = SelectSeq(g.players, isActiveObj),
            !.enemies = SelectSeq(g.enemies, isActiveObj),
            !.bullets = SelectSeq(g.bullets, isActiveObj),
            !.powerUps = SelectSeq(g.powerUps, isActiveObj)]

\* animationProgress is kept in thousandths
agedExplosion(explosion, deltaTime) ==
  LET currentFrame == explosion.currentFrame + deltaTime
  IN [explosion EXCEPT
        !.currentFrame = currentFrame,
        !.animationProgress = Min((currentFrame * 1000) \div explosion.duration, 1000)]

\* the filter of updateExplosions keeping an explosion whose time is up
stillRunningAtEnd(explosion) == explosion.currentFrame <= explosion.duration

stillRunning(explosion) == explosion.currentFrame < explosion.duration

updateExplosions(g, deltaTime) ==
  [g EXCEPT !.explosions =
     SelectSeq([i \in 1..Len(g.explosions) |-> agedExplosion(g.explosions[i], deltaTime)],
               stillRunning)]

\* whether checkGameOverConditions ends the game
noActivePlayers(g) == activeCount(g.players) = 0

\* checkGameOverConditions that never ends the game
checkGameOverConditionsNever(g) == g

checkGameOverConditions(g) ==
  IF noActivePlayers(g) THEN [g EXCEPT !.gameStatus = "gameOver"] ELSE g

(***************************************************************************)
(* State                                                                   *)
(*                                                                         *)
(* gameLoopId is "null", "pending" (the id of a requested frame callback   *)
(* that has neither run nor been cancelled) or "done" (the id of a         *)
(* callback that has run).  pendingFrames is the number of callbacks that  *)
(* requestAnimationFrame was given and that have neither run nor been      *)
(* cancelled, whether gameLoopId still holds their id or not; the callback *)
(* that runs is the one gameLoopId names.                                  *)
(* lastTick records the last call of update while no other call has been    *)
(* made since: its deltaTime and the game state it held at its entry, after  *)
(* physics, when                                                            *)
(* handleCollisions was entered, and when handleCollisions returned.        *)
(* lastSpawn records the same for the call of EnemySpawner.update: the      *)
(* spawner and the number of active enemies it found, the enemies it       *)
(* returned.  bossLog lists the bosses created since construction.         *)
(* calls counts the calls of the engine's public methods made so far and    *)
(* the frames that came in the same millisecond as the step before them.    *)
(* frames is the parity of the number of frame callbacks run in a game     *)
(* that is followed frame after frame.  lastCall is the public method      *)
(* whose call the last step was, with the player id it was given, NoCall   *)
(* after any other step.  snapshot is the object that the last call of     *)
(* getGameState returned, as it was when it was returned, where such calls *)
(* are followed.  component is the Game component that owns the engine,   *)
(* with the MultiplayerManager it created: the React state gameState and   *)
(* isMultiplayerMode, the room joined, the payloads emitted and not yet    *)
(* relayed, and the last inbound gameStateUpdate event.                    *)
(***************************************************************************)
VARIABLES gameState, lastUpdateTime, gameLoopId, pendingFrames,
          enemySpawner, powerUpSpawner, lastTick, lastSpawn, bossLog, calls,
          frames, lastCall, snapshot, component

vars == <<gameState, lastUpdateTime, gameLoopId, pendingFrames,
          enemySpawner, powerUpSpawner, lastTick, lastSpawn, bossLog, calls,
          frames, lastCall, snapshot, component>>

NoSnapshot == [taken |-> FALSE]

Call(name, playerId) == [name |-> name, playerId |-> playerId]
NoCall == Call("none", "")

NoTick == [ran |-> FALSE]
NoSpawn == [called |-> FALSE]

\* a step other than update: what the last update did is no longer on record
Forget == lastTick' = NoTick /\ lastSpawn' = NoSpawn /\ UNCHANGED <<bossLog, snapshot>>

(***************************************************************************)
(* Game and MultiplayerManager: the state-update callback and the inbound  *)
(* gameStateUpdate listener.                                               *)
(*                                                                         *)
(* The engine is constructed, and the manager is given its listeners, in   *)
(* effects that run once, when the component is mounted.  The callbacks    *)
(* they are given are those of the first render, and a callback reads the  *)
(* isMultiplayerMode of the render that created it: closureMode is that    *)
(* value.  setIsMultiplayerMode changes the state and makes later renders  *)
(* create new callbacks, which neither the engine nor the manager is       *)
(* given.                                                                  *)
(***************************************************************************)
NoRoom == ""
NoInbound == [received |-> FALSE]

newComponent ==
  [gameState |-> initializeGameState, isMultiplayerMode |-> FALSE,
   closureMode |-> FALSE, currentRoomId |-> NoRoom, wire |-> <<>>,
   inbound |-> NoInbound]

\* MultiplayerManager.sendGameStateUpdate: emit when in a room (the socket
\* exists once a room was created); socket.io carries the payload as JSON,
\* which keeps every string, boolean, finite number and array of the state
sendGameStateUpdate(c, g) ==
  IF c.currentRoomId # NoRoom
  THEN [c EXCEPT !.wire = Append(@, [roomId |-> c.currentRoomId, gameState |-> g,
                                     timestamp |-> DateNow])]
  ELSE c

\* the callback the engine was constructed with
handleGameStateUpdate(c, newGameState) ==
  LET c2 == [c EXCEPT !.gameState = newGameState]
  IN IF c.closureMode THEN sendGameStateUpdate(c2, newGameState) ELSE c2

\* the listener the manager was given for the gameStateUpdate event
handleMultiplayerGameStateUpdate(c, newGameState) ==
  IF c.closureMode THEN [c EXCEPT !.gameState = newGameState] ELSE c

\* the record of one call of EnemySpawner.update on spawner es and state g
spawnRecord(es, g, r) ==
  [called |-> TRUE, before |-> es, activeEnemies |-> activeCount(g.enemies),
   newEnemies |-> r.newEnemies]

\* the bosses created so far, with the wave and the progress of its quota
logBosses(log, es, g, r) ==
  IF \E i \in 1..Len(r.newEnemies) : r.newEnemies[i].enemyType = "boss"
  THEN LET es1 == IF shouldStartNewWave(es, g) THEN startNewWave(es) ELSE es
       IN Append(log, [waveNumber |-> es1.waveNumber,
                       enemiesInCurrentWave |-> es1.enemiesInCurrentWave,
                       maxEnemiesPerWave |-> es1.maxEnemiesPerWave])
  ELSE log

\* the frame durations and the waits between commands that the model draws
DeltaTimes == {0, 500}
WaitTimes == {MaxAge}

newPlayer(id, position, velocity, health, lives, weaponType) ==
  [id |-> id, playerId |-> id, position |-> position, velocity |-> velocity,
   size |-> Size(40 * PX, 40 * PX), rotation |-> Rotation0, health |-> health,
   maxHealth |-> 100, isActive |-> TRUE, lives |-> lives, weaponType |-> weaponType]

\* the players that addPlayer is called with
PlayerPool ==
  {newPlayer("p1", Vec(screenWidth \div 2, 20 * PX), Vec(0, 0), 10, 2, "basic"),
   newPlayer("p2", Vec(screenWidth \div 2, 20 * PX), Vec(0, 0 - 100), 10, 1, "spreadShot")}

PlayerIds == {"p1", "p2"}

\* the positions that updatePlayerPosition is called with
MovePositions ==
  {Vec(screenWidth \div 2, screenHeight - 20 * PX),
   Vec(0 - 10 * PX, screenHeight + 10 * PX)}

elapseEnemies(enemies, d) ==
  [i \in 1..Len(enemies) |->
     [enemies[i] EXCEPT !.lastShotTime = Elapse(enemies[i].lastShotTime, d)]]

elapseSpawner(es, d) ==
  [es EXCEPT !.lastSpawnTime = Elapse(es.lastSpawnTime, d),
             !.lastWaveTime = Elapse(es.lastWaveTime, d)]

\* every stored timestamp after d ms have passed
TimePasses(d) ==
  /\ lastUpdateTime' = Elapse(lastUpdateTime, d)
  /\ enemySpawner' = elapseSpawner(enemySpawner, d)
  /\ powerUpSpawner' = [powerUpSpawner EXCEPT !.lastSpawnTime = Elapse(@, d)]
  /\ gameState' = [gameState EXCEPT !.enemies = elapseEnemies(@, d)]
  /\ Forget
  /\ lastCall' = NoCall
  /\ UNCHANGED <<calls, frames, component>>

Init ==
  /\ gameState = initializeGameState
  /\ lastUpdateTime = 0 - MaxAge
  /\ gameLoopId = "null"
  /\ pendingFrames = 0
  /\ enemySpawner = newEnemySpawner
  /\ powerUpSpawner = newPowerUpSpawner
  /\ lastTick = NoTick
  /\ lastSpawn = NoSpawn
  /\ bossLog = <<>>
  /\ calls = 0
  /\ frames = 0
  /\ lastCall = NoCall
  /\ snapshot = NoSnapshot
  /\ component = newComponent

(***************************************************************************)
(* GameEngine: commands                                                    *)
(***************************************************************************)
\* one more call of a public method, of at most MaxCalls
Called(call) ==
  calls < MaxCalls /\ calls' = calls + 1 /\ lastCall' = call /\ UNCHANGED <<frames, component>>

\* cancelAnimationFrame(this.gameLoopId): the callback is taken off the
\* browser's list if it is still on it
cancelled == IF gameLoopId = "pending" THEN 1 ELSE 0

\* startGameLoop requesting a callback without cancelling the stored one
startGameLoopUncancelled ==
  /\ gameLoopId' = "pending"
  /\ pendingFrames' = pendingFrames + 1

\* startGameLoop: cancel the stored callback, request a new one
startGameLoop ==
  /\ gameLoopId' = "pending"
  /\ pendingFrames' = pendingFrames - cancelled + 1

\* stopGameLoop: cancel the stored callback and forget it
stopGameLoop ==
  /\ gameLoopId' = "null"
  /\ pendingFrames' = pendingFrames - cancelled

startGame(isMultiplayer) ==
  /\ gameState' = [gameState EXCEPT !.gameStatus = "playing",
                                    !.isMultiplayer = isMultiplayer,
                                    !.isPaused = FALSE]
  /\ lastUpdateTime' = DateNow
  /\ startGameLoop
  /\ Forget
  /\ UNCHANGED <<enemySpawner, powerUpSpawner>>

pauseGame ==
  /\ gameState' = [gameState EXCEPT !.isPaused = TRUE, !.gameStatus = "paused"]
  /\ stopGameLoop
  /\ Forget
  /\ UNCHANGED <<lastUpdateTime, enemySpawner, powerUpSpawner>>

\* resumeGame leaving lastUpdateTime as it is
resumeGameUnsynchronized ==
  /\ gameState' = [gameState EXCEPT !.isPaused = FALSE, !.gameStatus = "playing"]
  /\ startGameLoop
  /\ Forget
  /\ UNCHANGED <<lastUpdateTime, enemySpawner, powerUpSpawner>>

\* resumeGame restarting the intervals of the spawners as it restarts
\* lastUpdateTime
resumeGameRestartingTimers ==
  /\ gameState' = [gameState EXCEPT !.isPaused = FALSE, !.gameStatus = "playing"]
  /\ lastUpdateTime' = DateNow
  /\ startGameLoop
  /\ Forget
  /\ enemySpawner' = [enemySpawner EXCEPT !.lastSpawnTime = DateNow,
                                           !.lastWaveTime = DateNow]
  /\ powerUpSpawner' = [powerUpSpawner EXCEPT !.lastSpawnTime = DateNow]

resumeGame ==
  /\ gameState' = [gameState EXCEPT !.isPaused = FALSE, !.gameStatus = "playing"]
  /\ lastUpdateTime' = DateNow
  /\ startGameLoop
  /\ Forget
  /\ UNCHANGED <<enemySpawner, powerUpSpawner>>

stopGame ==
  /\ gameState' = [gameState EXCEPT !.gameStatus = "gameOver"]
  /\ stopGameLoop
  /\ Forget
  /\ UNCHANGED <<lastUpdateTime, enemySpawner, powerUpSpawner>>

addPlayer(player) ==
  /\ Len(gameState.players) < MaxPlayers
  /\ gameState' = [gameState EXCEPT !.players = Append(@, player)]
  /\ Forget
  /\ UNCHANGED <<lastUpdateTime, gameLoopId, pendingFrames, enemySpawner, powerUpSpawner>>

removePlayer(playerId) ==
  /\ gameState' = [gameState EXCEPT
                     !.players = SelectSeq(@, LAMBDA p : p.playerId # playerId)]
  /\ Forget
  /\ UNCHANGED <<lastUpdateTime, gameLoopId, pendingFrames, enemySpawner, powerUpSpawner>>

\* updatePlayerPosition moving the first player when the lookup misses
updatePlayerPositionOrFirst(playerId, position) ==
  /\ LET i == playerIndex(gameState, playerId)
     IN gameState' = IF i # 0 THEN [gameState EXCEPT !.players[i].position = position]
                     ELSE IF Len(gameState.players) > 0
                          THEN [gameState EXCEPT !.players[1].position = position]
                          ELSE gameState
  /\ Forget
  /\ UNCHANGED <<lastUpdateTime, gameLoopId, pendingFrames, enemySpawner, powerUpSpawner>>

updatePlayerPosition(playerId, position) ==
  /\ LET i == playerIndex(gameState, playerId)
     IN gameState' = IF i # 0 THEN [gameState EXCEPT !.players[i].position = position]
                     ELSE gameState
  /\ Forget
  /\ UNCHANGED <<lastUpdateTime, gameLoopId, pendingFrames, enemySpawner, powerUpSpawner>>

\* playerShoot without the test of gameStatus
playerShootAnytime(playerId) ==
  /\ LET i == playerIndex(gameState, playerId)
     IN IF i # 0
        THEN /\ Len(gameState.bullets) + Len(createPlayerBullets(gameState, gameState.players[i]))
                  <= MaxBullets
             /\ gameState' = [gameState EXCEPT
                    !.bullets = @ \o createPlayerBullets(gameState, gameState.players[i])]
        ELSE gameState' = gameState
  /\ Forget
  /\ UNCHANGED <<lastUpdateTime, gameLoopId, pendingFrames, enemySpawner, powerUpSpawner>>

playerShoot(playerId) ==
  /\ LET i == playerIndex(gameState, playerId)
     IN IF i # 0 /\ gameState.gameStatus = "playing"
        THEN /\ Len(gameState.bullets) + Len(createPlayerBullets(gameState, gameState.players[i]))
                  <= MaxBullets
             /\ gameState' = [gameState EXCEPT
                    !.bullets = @ \o createPlayerBullets(gameState, gameState.players[i])]
        ELSE gameState' = gameState
  /\ Forget
  /\ UNCHANGED <<lastUpdateTime, gameLoopId, pendingFrames, enemySpawner, powerUpSpawner>>

(***************************************************************************)
(* GameEngine.update and the game loop                                     *)
(***************************************************************************)
\* the values of the clock-driven sines that one update can read; a single
\* value when nothing in the state reads them
SinDraws(g) ==
  IF \/ \E i \in 1..Len(g.enemies) : g.enemies[i].isActive /\ g.enemies[i].attackPattern = "zigzag"
     \/ \E k \in 1..Len(g.powerUps) : g.powerUps[k].isActive
  THEN SinPhases ELSE {0}

CircDraws(g) ==
  IF \E i \in 1..Len(g.enemies) : g.enemies[i].isActive /\ g.enemies[i].attackPattern = "circular"
  THEN CircPhases ELSE {Vec(50, 0)}

PhaseDraws(g) == {[sin |-> sn, circ |-> c] : sn \in SinDraws(g), c \in CircDraws(g)}

\* the state after physics, at the point where the spawners are asked
afterPhysics(g, deltaTime, phase) ==
  physicsUpdate([g EXCEPT !.timeElapsed = Min(g.timeElapsed + deltaTime, MaxElapsed)],
                deltaTime, phase)

\* GameEngine.update from the clock reading on, one operator per statement
\* from the last to the first; each takes the states the statements before
\* it produced.  updateResult is the state update leaves behind: g7 is
\* the state after updateExplosions, g5 after handleCollisions, g4 after
\* the two spawners and g2 after physics.
updateResult(g, es, deltaTime, g2, spawned, powered, g4, g5, g7) ==
  [gameState |-> checkGameOverConditions(g7),
   enemySpawner |-> spawned.es,
   powerUpSpawner |-> powered.ps,
   gameOver |-> noActivePlayers(g7),
   tick |-> [ran |-> TRUE, deltaTime |-> deltaTime, before |-> g, physics |-> g2,
             spawned |-> g4, collided |-> g5],
   spawn |-> spawnRecord(es, g2, spawned),
   bosses |-> spawned]

\* this.cleanupInactiveObjects(); this.updateExplosions(deltaTime)
updateCleanup(g, es, deltaTime, g2, spawned, powered, g4, g5) ==
  updateResult(g, es, deltaTime, g2, spawned, powered, g4, g5,
               updateExplosions(cleanupInactiveObjects(g5), deltaTime))

\* this.handleCollisions()
updateCollisions(g, es, deltaTime, g2, spawned, powered, g4) ==
  updateCleanup(g, es, deltaTime, g2, spawned, powered, g4, handleCollisions(g4))

\* this.gameState.powerUps.push(...newPowerUps)
updatePowerUps(g, es, deltaTime, g2, spawned, g3, powered) ==
  updateCollisions(g, es, deltaTime, g2, spawned, powered,
                   [g3 EXCEPT !.powerUps = g3.powerUps \o powered.newPowerUps])

\* this.gameState.enemies.push(...newEnemies) and powerUpSpawner.update
updateEnemies(g, es, ps, deltaTime, powerUpDraw, g2, spawned, g3) ==
  updatePowerUps(g, es, deltaTime, g2, spawned, g3,
                 powerUpSpawnerUpdate(ps, g3, powerUpDraw))

\* enemySpawner.update
updateSpawn(g, es, ps, deltaTime, powerUpDraw, g2, spawned) ==
  updateEnemies(g, es, ps, deltaTime, powerUpDraw, g2, spawned,
                [g2 EXCEPT !.enemies = g2.enemies \o spawned.newEnemies])

updatePhysics(g, es, ps, deltaTime, enemyDraw, powerUpDraw, g2) ==
  updateSpawn(g, es, ps, deltaTime, powerUpDraw, g2, enemySpawnerUpdate(es, g2, enemyDraw))

update(g, es, ps, deltaTime, phase, enemyDraw, powerUpDraw) ==
  updatePhysics(g, es, ps, deltaTime, enemyDraw, powerUpDraw,
                afterPhysics(g, deltaTime, phase))

\* One frame callback (the closure gameLoop) runs dt ms after the previous
\* step.  It runs update and requests the next frame when it finds the game
\* playing, and does nothing otherwise.
gameLoop(dt) ==
  /\ gameLoopId = "pending"
  /\ lastCall' = NoCall
  /\ LET g == [gameState EXCEPT !.enemies = elapseEnemies(@, dt)]
         es == elapseSpawner(enemySpawner, dt)
         ps == [powerUpSpawner EXCEPT !.lastSpawnTime = Elapse(@, dt)]
         deltaTime == DateNow - Elapse(lastUpdateTime, dt)
     IN IF g.gameStatus = "playing" /\ ~g.isPaused
        THEN \E phase \in PhaseDraws(g) :
               LET g2 == afterPhysics(g, deltaTime, phase)
               IN /\ ~(shouldStartNewWave(es, g2) /\ es.waveNumber >= MaxWave)
                  /\ \E enemyDraw \in EnemyDraws(es, g2) :
                       \E powerUpDraw \in PowerUpDraws(ps, g2) :
                         LET r == update(g, es, ps, deltaTime, phase, enemyDraw, powerUpDraw)
                         IN /\ gameState' = r.gameState
                            /\ enemySpawner' = r.enemySpawner
                            /\ powerUpSpawner' = r.powerUpSpawner
                            /\ lastUpdateTime' = DateNow
                            /\ lastTick' = r.tick
                            /\ lastSpawn' = r.spawn
                            /\ bossLog' = logBosses(bossLog, es, g2, r.bosses)
                            \* this.gameLoopId = requestAnimationFrame(gameLoop),
                            \* also after checkGameOverConditions stopped the loop
                            /\ gameLoopId' = "pending"
                            \* the callback that ran is off the list (the
                            \* stopGameLoop of a game over finds nothing
                            \* to cancel), the one requested is on it
                            /\ pendingFrames' = pendingFrames - 1 + 1
                            /\ calls' = IF dt = 0 THEN calls + 1 ELSE calls
                            /\ UNCHANGED snapshot
        ELSE /\ gameState' = g
             /\ enemySpawner' = es
             /\ powerUpSpawner' = ps
             /\ lastUpdateTime' = Elapse(lastUpdateTime, dt)
             /\ Forget
             /\ gameLoopId' = "done"
             /\ pendingFrames' = pendingFrames - 1
             /\ calls' = IF dt = 0 THEN calls + 1 ELSE calls

\* time passes while no frame callback is pending
wait(d) ==
  /\ gameLoopId # "pending"
  /\ TimePasses(d)
  /\ UNCHANGED <<gameLoopId, pendingFrames>>

\* the frames of a game of at most MaxElapsed ms; a frame can come in the
\* same millisecond as the command before it, never as the frame before it,
\* and such a frame counts as one of the MaxCalls calls
Frame ==
  \E dt \in DeltaTimes :
    /\ gameState.gameStatus = "playing" /\ ~gameState.isPaused
          => gameState.timeElapsed + dt <= MaxElapsed
    /\ dt = 0 => ~lastTick.ran /\ calls < MaxCalls
    /\ gameLoop(dt)
    /\ UNCHANGED <<frames, component>>

Next ==
  \/ Called(Call("startGame", "")) /\ startGame(FALSE)
  \/ Called(Call("pauseGame", "")) /\ pauseGame
  \/ Called(Call("resumeGame", "")) /\ resumeGame
  \/ Called(Call("stopGame", "")) /\ stopGame
  \/ \E player \in PlayerPool :
       Called(Call("addPlayer", player.playerId)) /\ addPlayer(player)
  \/ \E id \in PlayerIds : Called(Call("removePlayer", id)) /\ removePlayer(id)
  \/ \E id \in PlayerIds, position \in MovePositions :
       Called(Call("updatePlayerPosition", id)) /\ updatePlayerPosition(id, position)
  \/ \E id \in PlayerIds : Called(Call("playerShoot", id)) /\ playerShoot(id)
  \/ Frame
  \/ \E d \in WaitTimes : wait(d)

Spec == Init /\ [][Next]_vars

(***************************************************************************)
(* The spawner driven on its own over many waves: EnemySpawner.update is   *)
(* called at any time, with every regular enemy drawn basic and straight;  *)
(* the enemies it returned leave the game all at once.                     *)
(***************************************************************************)
SpawnerWaits == {3000}

SpawnerDraws(es, g) ==
  {d \in EnemyDraws(es, g) : d.type = "basic" /\ d.pattern = "straight"}

\* one call of EnemySpawner.update, its result pushed as GameEngine.update does
spawnerUpdate ==
  /\ ~(shouldStartNewWave(enemySpawner, gameState) /\ enemySpawner.waveNumber >= MaxWave)
  /\ \E draw \in SpawnerDraws(enemySpawner, gameState) :
       LET r == enemySpawnerUpdate(enemySpawner, gameState, draw)
       IN /\ enemySpawner' = r.es
          /\ gameState' = [gameState EXCEPT !.enemies = @ \o r.newEnemies]
          /\ lastSpawn' = spawnRecord(enemySpawner, gameState, r)
          /\ bossLog' = logBosses(bossLog, enemySpawner, gameState, r)
  /\ lastTick' = NoTick
  /\ lastCall' = NoCall
  /\ UNCHANGED <<lastUpdateTime, gameLoopId, pendingFrames, powerUpSpawner, calls, frames, snapshot, component>>

\* every enemy is destroyed or leaves the screen, and is cleaned up
enemiesCleared ==
  /\ Len(gameState.enemies) > 0
  /\ gameState' = [gameState EXCEPT !.enemies = <<>>]
  /\ Forget
  /\ lastCall' = NoCall
  /\ UNCHANGED <<lastUpdateTime, gameLoopId, pendingFrames, enemySpawner, powerUpSpawner, calls,
               frames, component>>

spawnerWait(d) == TimePasses(d) /\ UNCHANGED <<gameLoopId, pendingFrames>>

NextSpawner ==
  \/ spawnerUpdate
  \/ enemiesCleared
  \/ \E d \in SpawnerWaits : spawnerWait(d)

SpecSpawner == Init /\ [][NextSpawner]_vars

(***************************************************************************)
(* The spawner with its configuration hooks, through the first             *)
(* WavesMaxWave waves: EnemySpawner.update is called at any time at which  *)
(* the enemies it returned before have left the game, and while they are   *)
(* in the game at any time at which it creates no regular enemy, with      *)
(* every type and pattern that Math.random can select; reset and           *)
(* setDifficulty, to the                                                   *)
(* lowest and to the highest level, are called at any time between two     *)
(* updates, at most MaxHooks times in all.                                 *)
(***************************************************************************)
Difficulties == {"easy", "expert"}

\* one call of EnemySpawner.update, its result pushed as GameEngine.update does
wavesUpdate ==
  /\ Len(gameState.enemies) = 0 \/ ~spawnsRegular(enemySpawner, gameState)
  /\ ~(shouldStartNewWave(enemySpawner, gameState) /\ enemySpawner.waveNumber >= WavesMaxWave)
  /\ \E draw \in EnemyDraws(enemySpawner, gameState) :
       LET r == enemySpawnerUpdate(enemySpawner, gameState, draw)
       IN /\ enemySpawner' = r.es
          /\ gameState' = [gameState EXCEPT !.enemies = @ \o r.newEnemies]
          /\ lastSpawn' = spawnRecord(enemySpawner, gameState, r)
          /\ bossLog' = logBosses(bossLog, enemySpawner, gameState, r)
  /\ lastTick' = NoTick
  /\ lastCall' = Call("update", "")
  /\ UNCHANGED <<lastUpdateTime, gameLoopId, pendingFrames, powerUpSpawner, calls, frames,
                 snapshot, component>>

\* a call of a configuration hook
configured(es) ==
  /\ enemySpawner' = es
  /\ Forget
  /\ UNCHANGED <<gameState, lastUpdateTime, gameLoopId, pendingFrames, powerUpSpawner>>

NextWaves ==
  \/ wavesUpdate
  \/ enemiesCleared
  \/ \E d \in SpawnerWaits : spawnerWait(d)
  \/ calls < MaxHooks /\ Called(Call("reset", "")) /\ configured(reset(enemySpawner))
  \/ \E difficulty \in Difficulties :
       /\ calls < MaxHooks
       /\ Called(Call("setDifficulty", difficulty))
       /\ configured(setDifficulty(enemySpawner, difficulty))

SpecWaves == Init /\ [][NextWaves]_vars

(***************************************************************************)
(* The power-up spawner driven on its own: PowerUpSpawner.update is called *)
(* at any time on a list of at most MaxPowerUps power-ups, a power-up is   *)
(* collected or leaves the screen at any time, and the inactive ones are   *)
(* cleaned up at any time.                                                 *)
(***************************************************************************)
PowerUpWaits == {5000, 10000}

\* one call of PowerUpSpawner.update, its result pushed as GameEngine.update does
powerUpsUpdate ==
  /\ Len(gameState.powerUps) < MaxPowerUps
  /\ \E draw \in PowerUpDraws(powerUpSpawner, gameState) :
       LET r == powerUpSpawnerUpdate(powerUpSpawner, gameState, draw)
       IN /\ powerUpSpawner' = r.ps
          /\ gameState' = [gameState EXCEPT !.powerUps = @ \o r.newPowerUps]
  /\ Forget
  /\ lastCall' = Call("PowerUpSpawner.update", "")
  /\ UNCHANGED <<lastUpdateTime, gameLoopId, pendingFrames, enemySpawner, calls, frames, component>>

\* power-up i is collected by a player or leaves the screen
powerUpLeaves(i) ==
  /\ gameState.powerUps[i].isActive
  /\ gameState' = [gameState EXCEPT !.powerUps[i].isActive = FALSE]
  /\ Forget
  /\ lastCall' = NoCall
  /\ UNCHANGED <<lastUpdateTime, gameLoopId, pendingFrames, enemySpawner, powerUpSpawner, calls,
                 frames, component>>

powerUpsCleanup ==
  /\ activeCount(gameState.powerUps) < Len(gameState.powerUps)
  /\ gameState' = cleanupInactiveObjects(gameState)
  /\ Forget
  /\ lastCall' = NoCall
  /\ UNCHANGED <<lastUpdateTime, gameLoopId, pendingFrames, enemySpawner, powerUpSpawner, calls,
                 frames, component>>

\* the positions a boss is defeated at: where it is created, and further down
BossPositions ==
  {Vec(screenWidth \div 2, 0 - 30 * PX), Vec(screenWidth \div 2, 60 * PX),
   Vec(40 * PX, 100 * PX)}

\* one call of spawnBossDefeatReward, which no part of the engine makes;
\* lastSpawn keeps its argument and its result
bossDefeatReward ==
  /\ \E bossPosition \in BossPositions, draw \in RewardDraws :
       lastSpawn' = [called |-> TRUE, bossPosition |-> bossPosition,
                     rewards |-> spawnBossDefeatReward(bossPosition, draw)]
  /\ lastTick' = NoTick
  /\ lastCall' = Call("spawnBossDefeatReward", "")
  /\ UNCHANGED <<gameState, lastUpdateTime, gameLoopId, pendingFrames, enemySpawner, powerUpSpawner,
                 bossLog, calls, frames, snapshot, component>>

NextPowerUps ==
  \/ bossDefeatReward
  \/ powerUpsUpdate
  \/ \E i \in 1..Len(gameState.powerUps) : powerUpLeaves(i)
  \/ powerUpsCleanup
  \/ \E d \in PowerUpWaits : spawnerWait(d)

SpecPowerUps == Init /\ [][NextPowerUps]_vars

(***************************************************************************)
(* The collision handlers driven on their own: from a state in which       *)
(* handleCollisions was entered with players, enemies and bullets that all *)
(* overlap, the handlers are called one at a time on the pairs that        *)
(* checkCollision accepts.  The active enemies of a state are all of one   *)
(* wave: a wave starts only when none is active.                           *)
(***************************************************************************)
HitPosition == Vec(screenWidth \div 2, screenHeight \div 2)

hitEnemy(wave, type, pattern) ==
  [createEnemy([newEnemySpawner EXCEPT !.waveNumber = wave], type, HitPosition.x, pattern)
     EXCEPT !.position = HitPosition, !.lastShotTime = DateNow]

hitBoss(wave) ==
  [createBoss([newEnemySpawner EXCEPT !.waveNumber = wave])
     EXCEPT !.position = HitPosition, !.lastShotTime = DateNow]

hitState(players, enemies, bullets) ==
  [initializeGameState EXCEPT !.gameStatus = "playing", !.players = players,
                              !.enemies = enemies, !.bullets = bullets]

\* where a player stands whose bullets start at HitPosition
ShooterPosition == Vec(HitPosition.x, HitPosition.y + 20 * PX)

hitPlayer(id, health, lives, weaponType) ==
  newPlayer(id, ShooterPosition, Vec(0, 0), health, lives, weaponType)

\* a 100/100 player with 3 lives among ten basic enemies of wave 1
TenHitsFixture ==
  hitState(<<hitPlayer("p1", 100, 3, "basic")>>,
           [j \in 1..10 |-> hitEnemy(1, "basic", "straight")],
           <<>>)

\* two players among a fast enemy, a basic enemy and the boss of wave 5,
\* with the bullets of a spread shot and an enemy bullet
MixedFixtures ==
  {hitState(<<hitPlayer("p1", health, lives, "spreadShot"), hitPlayer("p2", 100, 1, "basic")>>,
            <<hitEnemy(5, "fast", "zigzag"), hitEnemy(5, "basic", "straight"), hitBoss(5)>>,
            createPlayerBullets(initializeGameState,
                                hitPlayer("p1", health, lives, "spreadShot"))
              \o <<createEnemyBullet(hitBoss(5))>>) :
     health \in {10, 25}, lives \in {1, 2}}

InitHits ==
  /\ gameState \in {TenHitsFixture} \cup MixedFixtures
  /\ lastUpdateTime = DateNow
  /\ gameLoopId = "done"
  /\ pendingFrames = 0
  /\ enemySpawner = newEnemySpawner
  /\ powerUpSpawner = newPowerUpSpawner
  /\ lastTick = NoTick
  /\ lastSpawn = NoSpawn
  /\ bossLog = <<>>
  /\ calls = 0
  /\ frames = 0
  /\ lastCall = NoCall
  /\ snapshot = NoSnapshot
  /\ component = newComponent

hitStep(g) ==
  /\ gameState' = g
  /\ Forget
  /\ lastCall' = NoCall
  /\ UNCHANGED <<lastUpdateTime, gameLoopId, pendingFrames, enemySpawner, powerUpSpawner, calls,
               frames, component>>

playerEnemyHit(i, j) ==
  /\ checkCollision(gameState.players[i], gameState.enemies[j])
  /\ hitStep(handlePlayerEnemyCollision(gameState, i, j))

bulletEnemyHit(b, j) ==
  /\ startsWith(gameState.bullets[b].bulletType, "player")
  /\ checkCollision(gameState.bullets[b], gameState.enemies[j])
  /\ hitStep(handleBulletEnemyCollision(gameState, b, j))

bulletPlayerHit(b, i) ==
  /\ startsWith(gameState.bullets[b].bulletType, "enemy")
  /\ checkCollision(gameState.bullets[b], gameState.players[i])
  /\ hitStep(handleBulletPlayerCollision(gameState, b, i))

NextHits ==
  \/ \E i \in 1..Len(gameState.players), j \in 1..Len(gameState.enemies) :
       playerEnemyHit(i, j)
  \/ \E b \in 1..Len(gameState.bullets), j \in 1..Len(gameState.enemies) :
       bulletEnemyHit(b, j)
  \/ \E b \in 1..Len(gameState.bullets), i \in 1..Len(gameState.players) :
       bulletPlayerHit(b, i)

SpecHits == InitHits /\ [][NextHits]_vars

(***************************************************************************)
(* handleCollisions run as a whole, pass after pass, on states in which    *)
(* one or two players stand on one spot with or without an enemy, enemy    *)
(* bullets and a power-up on it, and enemies and player bullets lie on     *)
(* another spot away from the players.  lastTick keeps the state at entry  *)
(* and after each of the four passes.  cleanupInactiveObjects,             *)
(* updateExplosions and checkGameOverConditions follow as in update, and   *)
(* the passes run again on what they leave for as long as the game is      *)
(* played; lastTick then keeps the state updateExplosions was given and    *)
(* its deltaTime.                                                          *)
(***************************************************************************)
PlayerSpot == Vec(screenWidth \div 2, 110 * PX)
EnemySpot == Vec(screenWidth \div 2, 30 * PX)

spotEnemy(type, spot) ==
  [createEnemy(newEnemySpawner, type, spot.x, "straight")
     EXCEPT !.position = spot, !.lastShotTime = DateNow]

spotPlayer(id, health, lives) == newPlayer(id, PlayerSpot, Vec(0, 0), health, lives, "basic")

spotBullet(ownerId, bulletType, spot) ==
  [createBullet(initializeGameState, spot, Vec(0, 0 - bulletSpeed), ownerId, bulletType)
     EXCEPT !.position = spot]

spotPowerUp(type) == [createPowerUp(type, PlayerSpot.x) EXCEPT !.position = PlayerSpot]

\* the explosion of an enemy destroyed on EnemySpot in an update of 250 ms
spotExplosion ==
  agedExplosion(createExplosion(initializeGameState, EnemySpot, 30 * PX).explosions[1], 250)

CollisionFixtures ==
  LET playerBullet(spot) == spotBullet("p1", "playerBasic", spot)
      enemyBullet == [createEnemyBullet(spotEnemy("basic", EnemySpot))
                        EXCEPT !.position = PlayerSpot]
  IN {[initializeGameState EXCEPT !.gameStatus = "playing", !.players = players,
                                  !.enemies = enemies, !.bullets = bullets,
                                  !.powerUps = powerUps, !.explosions = explosions] :
        explosions \in {<<>>, <<spotExplosion>>},
        players \in {<<spotPlayer("p1", health, lives)>> \o others :
                       health \in {10, 60}, lives \in {1, 2},
                       others \in {<<>>, <<spotPlayer("p2", 100, 3)>>}},
        enemies \in {<<>>,
                     <<spotEnemy("basic", EnemySpot), spotEnemy("heavy", EnemySpot)>>,
                     <<spotEnemy("basic", PlayerSpot)>>,
                     <<spotEnemy("heavy", PlayerSpot), spotEnemy("basic", EnemySpot)>>,
                     <<spotEnemy("heavy", PlayerSpot), spotEnemy("basic", EnemySpot),
                       spotEnemy("basic", EnemySpot)>>},
        bullets \in {<<>>,
                     <<playerBullet(EnemySpot)>>,
                     <<playerBullet(EnemySpot), playerBullet(EnemySpot)>>,
                     <<playerBullet(PlayerSpot), enemyBullet>>,
                     <<playerBullet(EnemySpot), enemyBullet>>,
                     <<enemyBullet, enemyBullet>>},
        powerUps \in {<<>>, <<spotPowerUp("health"), spotPowerUp("health")>>}
                       \cup {<<spotPowerUp(type)>> : type \in PowerUpTypes}}

InitCollisions ==
  /\ gameState \in CollisionFixtures
  /\ lastUpdateTime = DateNow
  /\ gameLoopId = "done"
  /\ pendingFrames = 0
  /\ enemySpawner = newEnemySpawner
  /\ powerUpSpawner = newPowerUpSpawner
  /\ lastTick = NoTick
  /\ lastSpawn = NoSpawn
  /\ bossLog = <<>>
  /\ calls = 0
  /\ frames = 0
  /\ lastCall = NoCall
  /\ snapshot = NoSnapshot
  /\ component = newComponent

\* handleCollisions, the state after each of its four passes kept on record
collisionPasses ==
  LET contact == playerEnemyLoop(gameState, 0)
      struck == bulletEnemyLoop(contact, 0)
      shot == bulletPlayerLoop(struck, 0)
      collected == playerPowerUpLoop(shot, 0)
  IN /\ gameState' = collected
     /\ lastTick' = [ran |-> FALSE, passes |-> TRUE, entered |-> gameState,
                     contact |-> contact, struck |-> struck, shot |-> shot,
                     collected |-> collected]
     /\ lastSpawn' = NoSpawn
     /\ lastCall' = Call("handleCollisions", "")
     /\ UNCHANGED <<lastUpdateTime, gameLoopId, pendingFrames, enemySpawner,
                    powerUpSpawner, bossLog, calls, frames, snapshot, component>>

\* cleanupInactiveObjects, as update calls it after handleCollisions
cleanupPass ==
  /\ lastCall = Call("handleCollisions", "")
  /\ gameState' = cleanupInactiveObjects(gameState)
  /\ Forget
  /\ lastCall' = Call("cleanupInactiveObjects", "")
  /\ UNCHANGED <<lastUpdateTime, gameLoopId, pendingFrames, enemySpawner,
                 powerUpSpawner, calls, frames, component>>

\* the time between two updates, as the update that follows reads it
ExplosionDeltas == {0, 100, 250, 500, 600}

\* updateExplosions(deltaTime) and checkGameOverConditions, as update calls
\* them after cleanupInactiveObjects
explosionsPass ==
  /\ lastCall = Call("cleanupInactiveObjects", "")
  /\ \E deltaTime \in ExplosionDeltas :
       /\ gameState' = checkGameOverConditions(updateExplosions(gameState, deltaTime))
       /\ lastTick' = [ran |-> FALSE, aged |-> TRUE, deltaTime |-> deltaTime,
                       cleaned |-> gameState]
  /\ lastSpawn' = NoSpawn
  /\ lastCall' = Call("updateExplosions", "")
  /\ UNCHANGED <<lastUpdateTime, gameLoopId, pendingFrames, enemySpawner,
                 powerUpSpawner, bossLog, calls, frames, snapshot, component>>

NextCollisions ==
  \/ /\ lastCall # Call("handleCollisions", "")
     /\ gameState.gameStatus = "playing"
     /\ collisionPasses
  \/ cleanupPass
  \/ explosionsPass

SpecCollisions == InitCollisions /\ [][NextCollisions]_vars

(***************************************************************************)
(* PhysicsEngine.update and the collision pass driven on their own, from   *)
(* states whose entities are about to reach the edge of the culling        *)
(* rectangle in one half-second step, or touch the player's box: a         *)
(* player, a basic enemy of wave 1 heading for the bottom edge, a player   *)
(* bullet heading for the top edge, an enemy bullet beside the player or   *)
(* heading for the bottom edge, and a health power-up near the bottom      *)
(* edge.                                                                   *)
(***************************************************************************)
EdgePlayer ==
  newPlayer("p1", Vec(screenWidth \div 2, 70 * PX), Vec(0, 0), 100, 3, "basic")

\* basic enemies one 500 ms step from a pixel short of, on and past
\* the bottom edge, that have shot just now or long ago
EdgeEnemies ==
  {LET enemy == createEnemy(newEnemySpawner, "basic", screenWidth \div 2, pattern)
   IN [enemy EXCEPT
         !.position = Vec(screenWidth \div 2,
                          screenHeight + margin - enemy.velocity.y * 500 + d),
         !.lastShotTime = t] :
     pattern \in {"straight", "zigzag"}, d \in {0 - PX, 0, PX},
     t \in {DateNow, 0 - MaxAge}}

\* player bullets touching the top of the player's box, and one step from
\* just short of, on and past the top edge
EdgeBullets ==
  {createBullet(initializeGameState, Vec(screenWidth \div 2, y), Vec(0, 0 - bulletSpeed),
                "p1", "playerBasic") :
     y \in {45 * PX, 49 * PX, 50 * PX, 51 * PX}}

\* enemy bullets that touch the player's box along its right edge, touch
\* it at its lower right corner, overlap that corner, and are one step
\* from the bottom edge or just short of it
EdgeEnemyBullets ==
  {[createEnemyBullet(createEnemy(newEnemySpawner, "basic", screenWidth \div 2, "straight"))
      EXCEPT !.position = position] :
     position \in {Vec(83 * PX, 70 * PX), Vec(83 * PX, 96 * PX), Vec(82 * PX, 95 * PX),
                   Vec(screenWidth \div 2, 185 * PX), Vec(screenWidth \div 2, 184 * PX)}}

\* health power-ups one step from 0.3 px short of and past the bottom edge
EdgePowerUps ==
  {LET powerUp == createPowerUp("health", screenWidth \div 2)
   IN [powerUp EXCEPT
         !.position = Vec(screenWidth \div 2,
                          screenHeight + margin - powerUp.velocity.y * 500 + d)] :
     d \in {0 - 300, 300}}

InitPhysics ==
  /\ gameState \in
       {[initializeGameState EXCEPT !.gameStatus = "playing",
                                    !.players = <<EdgePlayer>>,
                                    !.enemies = <<enemy>>,
                                    !.bullets = <<bullet, enemyBullet>>,
                                    !.powerUps = <<powerUp>>] :
          enemy \in EdgeEnemies, bullet \in EdgeBullets,
          enemyBullet \in EdgeEnemyBullets, powerUp \in EdgePowerUps}
  /\ lastUpdateTime = DateNow
  /\ gameLoopId = "done"
  /\ pendingFrames = 0
  /\ enemySpawner = newEnemySpawner
  /\ powerUpSpawner = newPowerUpSpawner
  /\ lastTick = NoTick
  /\ lastSpawn = NoSpawn
  /\ bossLog = <<>>
  /\ calls = 0
  /\ frames = 0
  /\ lastCall = NoCall
  /\ snapshot = NoSnapshot
  /\ component = newComponent

\* one call of PhysicsEngine.update(gameState, deltaTime)
physicsStep ==
  \E deltaTime \in DeltaTimes, phase \in PhaseDraws(gameState) :
    LET g2 == physicsUpdate(gameState, deltaTime, phase)
    IN /\ gameState' = g2
       /\ lastTick' = [ran |-> TRUE, deltaTime |-> deltaTime, before |-> gameState,
                       physics |-> g2, spawned |-> g2, collided |-> g2]
       /\ lastSpawn' = NoSpawn
       /\ UNCHANGED <<lastUpdateTime, gameLoopId, pendingFrames, enemySpawner, powerUpSpawner,
                      bossLog, snapshot>>

\* one call of handleCollisions
collisionStep ==
  /\ gameState' = handleCollisions(gameState)
  /\ Forget
  /\ UNCHANGED <<lastUpdateTime, gameLoopId, pendingFrames, enemySpawner, powerUpSpawner>>

NextPhysics ==
  \/ Called(Call("update", "")) /\ physicsStep
  \/ Called(Call("handleCollisions", "")) /\ collisionStep

SpecPhysics == InitPhysics /\ [][NextPhysics]_vars

(***************************************************************************)
(* PhysicsEngine.update called frame after frame on the enemies of a wave  *)
(* as the spawner created them, none of which has been processed yet: a    *)
(* basic enemy of wave 1, or a fast enemy, a heavy enemy, or the boss with *)
(* a basic enemy, all of wave 5.  A frame comes 500, 1000 or 1500 ms after *)
(* the step before it; between two frames the game can stay paused for two *)
(* seconds, which no frame counts in its deltaTime.                        *)
(***************************************************************************)
FirePlayer ==
  newPlayer("p1", Vec(screenWidth \div 2, screenHeight - 20 * PX), Vec(0, 0), 100, 3, "basic")

FireEnemies ==
  LET wave(n) == [newEnemySpawner EXCEPT !.waveNumber = n]
  IN {<<createEnemy(wave(1), "basic", screenWidth \div 2, "straight")>>,
      <<createEnemy(wave(5), "fast", screenWidth \div 2, "zigzag")>>,
      <<createEnemy(wave(5), "heavy", screenWidth \div 2, "straight")>>,
      <<createBoss(wave(5)), createEnemy(wave(5), "basic", screenWidth \div 2, "straight")>>}

InitFire ==
  /\ gameState \in {[initializeGameState EXCEPT !.gameStatus = "playing",
                                                !.players = <<FirePlayer>>,
                                                !.enemies = enemies] :
                       enemies \in FireEnemies}
  /\ lastUpdateTime = DateNow
  /\ gameLoopId = "done"
  /\ pendingFrames = 0
  /\ enemySpawner = newEnemySpawner
  /\ powerUpSpawner = newPowerUpSpawner
  /\ lastTick = NoTick
  /\ lastSpawn = NoSpawn
  /\ bossLog = <<>>
  /\ calls = 0
  /\ frames = 0
  /\ lastCall = NoCall
  /\ snapshot = NoSnapshot
  /\ component = newComponent

FireDeltas == {500, 1000, 1500}
FirePauses == {2000}

\* one call of PhysicsEngine.update(gameState, deltaTime), deltaTime ms
\* after the step before it
fireFrame ==
  \E deltaTime \in FireDeltas :
    LET g == [gameState EXCEPT !.enemies = elapseEnemies(@, deltaTime)]
    IN \E phase \in PhaseDraws(g) :
         LET g2 == physicsUpdate(g, deltaTime, phase)
         IN /\ gameState' = g2
            /\ lastTick' = [ran |-> TRUE, deltaTime |-> deltaTime, before |-> g,
                            physics |-> g2, spawned |-> g2, collided |-> g2]
            /\ lastSpawn' = NoSpawn
            /\ UNCHANGED <<lastUpdateTime, gameLoopId, pendingFrames, enemySpawner,
                           powerUpSpawner, bossLog, snapshot>>

\* the game stays paused for d ms: resumeGame sets lastUpdateTime to the
\* time of its call
firePause(d) ==
  /\ lastTick.ran
  /\ gameState' = [gameState EXCEPT !.enemies = elapseEnemies(@, d)]
  /\ Forget
  /\ UNCHANGED <<lastUpdateTime, gameLoopId, pendingFrames, enemySpawner, powerUpSpawner>>

NextFire ==
  \/ Called(Call("update", "")) /\ fireFrame
  \/ \E d \in FirePauses : Called(Call("resumeGame", "")) /\ firePause(d)

SpecFire == InitFire /\ [][NextFire]_vars

(***************************************************************************)
(* playerShoot, updatePlayerPosition and getGameState called on their own, *)
(* in games with one or two players that hold any of the weapons and are   *)
(* in any status.                                                          *)
(*                                                                         *)
(* getGameState returns { ...this.gameState }: a new object that has the   *)
(* values of the fields of gameState.  The value of players, enemies,      *)
(* bullets, powerUps and explosions is the array itself, not a copy of it. *)
(* As long as the engine assigns no new array to one of these fields (no   *)
(* call of this specification does), who holds the returned object reads   *)
(* from it the other fields as they were returned, and the engine's arrays *)
(* as they are.                                                            *)
(***************************************************************************)
getGameState ==
  /\ snapshot' = [taken |-> TRUE, state |-> gameState]
  /\ lastTick' = NoTick
  /\ lastSpawn' = NoSpawn
  /\ UNCHANGED <<gameState, lastUpdateTime, gameLoopId, pendingFrames, enemySpawner, powerUpSpawner,
                 bossLog>>

snapshotRead ==
  [snapshot.state EXCEPT !.players = gameState.players,
                         !.enemies = gameState.enemies,
                         !.bullets = gameState.bullets,
                         !.powerUps = gameState.powerUps,
                         !.explosions = gameState.explosions]

WeaponTypes == {"basic", "rapidFire", "spreadShot", "laser", "missile"}

InitShoot ==
  /\ gameState \in
       {[initializeGameState EXCEPT !.gameStatus = status,
                                    !.isPaused = (status = "paused"),
                                    !.players = players] :
          status \in {"menu", "playing", "paused", "gameOver"},
          players \in
            {<<hitPlayer("p1", 100, 3, w1)>> : w1 \in WeaponTypes}
              \cup {<<hitPlayer("p1", 100, 3, w1), hitPlayer("p2", 100, 3, w2)>> :
                      w1 \in WeaponTypes, w2 \in WeaponTypes}}
  /\ lastUpdateTime = DateNow
  /\ gameLoopId = IF gameState.gameStatus = "playing" THEN "pending" ELSE "null"
  /\ pendingFrames = IF gameState.gameStatus = "playing" THEN 1 ELSE 0
  /\ enemySpawner = newEnemySpawner
  /\ powerUpSpawner = newPowerUpSpawner
  /\ lastTick = NoTick
  /\ lastSpawn = NoSpawn
  /\ bossLog = <<>>
  /\ calls = 0
  /\ frames = 0
  /\ lastCall = NoCall
  /\ snapshot = NoSnapshot
  /\ component = newComponent

NextShoot ==
  \/ \E id \in PlayerIds : Called(Call("playerShoot", id)) /\ playerShoot(id)
  \/ \E id \in PlayerIds, position \in MovePositions :
       Called(Call("updatePlayerPosition", id)) /\ updatePlayerPosition(id, position)
  \/ Called(Call("getGameState", "")) /\ getGameState

SpecShoot == InitShoot /\ [][NextShoot]_vars

(***************************************************************************)
(* The Game component driving the engine: it starts a single-player or a   *)
(* multiplayer game, the engine hands the state of every update to the     *)
(* callback it was constructed with, and the socket delivers inbound       *)
(* gameStateUpdate events once a room is joined.  The relaying server is   *)
(* not part of the repository: an inbound event carries the state of a     *)
(* payload that was emitted, or the state of a peer.                       *)
(***************************************************************************)
RoomId == "room"
LocalPlayerId == "local_player"

\* playerPosition as the component initialises it
localPlayer ==
  newPlayer(LocalPlayerId, Vec(screenWidth \div 2, screenHeight - 100 * PX),
            Vec(0, 0), 100, 3, "basic")

\* a state that a peer's engine emitted
PeerStates ==
  {[initializeGameState EXCEPT
      !.players = <<newPlayer("peer", Vec(10 * PX, 10 * PX), Vec(0, 0), 70, 2, "basic")>>,
      !.score = 100, !.gameStatus = "playing", !.isMultiplayer = TRUE]}

\* addPlayer(localPlayer) followed by startGame(isMultiplayer)
startLocalGame(isMultiplayer) ==
  /\ Len(gameState.players) < MaxPlayers
  /\ gameState' = [gameState EXCEPT !.players = Append(@, localPlayer),
                                    !.gameStatus = "playing",
                                    !.isMultiplayer = isMultiplayer,
                                    !.isPaused = FALSE]
  /\ lastUpdateTime' = DateNow
  /\ startGameLoop
  /\ Forget
  /\ UNCHANGED <<enemySpawner, powerUpSpawner>>

startSinglePlayerGame ==
  /\ startLocalGame(FALSE)
  /\ component' = [component EXCEPT !.isMultiplayerMode = FALSE, !.inbound = NoInbound]

\* connect and createRoom succeed or fail; the game starts when both succeed
startMultiplayerGame ==
  \E roomCreated \in BOOLEAN :
    IF roomCreated
    THEN /\ startLocalGame(TRUE)
         /\ component' = [component EXCEPT !.isMultiplayerMode = TRUE,
                                           !.currentRoomId = RoomId,
                                           !.inbound = NoInbound]
    ELSE /\ Forget
         /\ UNCHANGED <<gameState, lastUpdateTime, gameLoopId, pendingFrames, enemySpawner,
                        powerUpSpawner, component>>

\* a frame callback; update ends by calling onStateUpdate({ ...gameState })
netFrame ==
  \E dt \in DeltaTimes :
    /\ gameState.gameStatus = "playing" /\ ~gameState.isPaused
          => gameState.timeElapsed + dt <= MaxElapsed
    /\ dt = 0 => ~lastTick.ran /\ calls < MaxCalls
    /\ gameLoop(dt)
    /\ component' = IF lastTick'.ran
                    THEN [handleGameStateUpdate(component, gameState')
                            EXCEPT !.inbound = NoInbound]
                    ELSE component
    /\ UNCHANGED frames

InboundStates ==
  {component.wire[k].gameState : k \in 1..Len(component.wire)} \cup PeerStates

\* the socket's gameStateUpdate listener: onGameStateUpdate?.(gameState)
onGameStateUpdate(g) ==
  /\ component.currentRoomId # NoRoom
  /\ component' = [handleMultiplayerGameStateUpdate(component, g)
                     EXCEPT !.inbound = [received |-> TRUE, gameState |-> g]]
  /\ UNCHANGED <<gameState, lastUpdateTime, gameLoopId, pendingFrames, enemySpawner, powerUpSpawner,
                 lastTick, lastSpawn, bossLog, calls, frames, lastCall, snapshot>>

InitNet == Init

NextNet ==
  \/ calls < MaxCalls /\ calls' = calls + 1 /\ UNCHANGED frames
       /\ lastCall' = Call("startSinglePlayerGame", "") /\ startSinglePlayerGame
  \/ calls < MaxCalls /\ calls' = calls + 1 /\ UNCHANGED frames
       /\ lastCall' = Call("startMultiplayerGame", "") /\ startMultiplayerGame
  \/ netFrame
  \/ \E d \in WaitTimes : wait(d)
  \/ \E g \in InboundStates : onGameStateUpdate(g)

SpecNet == InitNet /\ [][NextNet]_vars

(***************************************************************************)
(* A single-player game that keeps running: at construction time one      *)
(* player on its last life was added and startGame called, a frame         *)
(* callback is pending.  Frames come half a second apart for as long as    *)
(* the callback is requested again, and between two frames the player can  *)
(* be moved to either of two positions on the vertical line on which the   *)
(* enemies are spawned.  The spawner draws basic and heavy enemies,        *)
(* straight ones and, for the last enemy of a wave, homing ones; no        *)
(* power-up is drawn.  The game is followed through the first LiveMaxWave  *)
(* waves.                                                                  *)
(***************************************************************************)
LiveMaxWave == 3

LivePlayerId == "local_player"

LivePositions ==
  {Vec(screenWidth \div 2, 20 * PX), Vec(screenWidth \div 2, screenHeight - 20 * PX)}

\* the player addPlayer was called with
livePlayer ==
  newPlayer(LivePlayerId, Vec(screenWidth \div 2, screenHeight - 20 * PX), Vec(0, 0),
            25, 1, "basic")

InitLive ==
  /\ gameState = [initializeGameState EXCEPT !.players = <<livePlayer>>,
                                             !.gameStatus = "playing"]
  /\ lastUpdateTime = DateNow
  /\ gameLoopId = "pending"
  /\ pendingFrames = 1
  /\ enemySpawner = newEnemySpawner
  /\ powerUpSpawner = newPowerUpSpawner
  /\ lastTick = NoTick
  /\ lastSpawn = NoSpawn
  /\ bossLog = <<>>
  /\ calls = 0
  /\ frames = 0
  /\ lastCall = NoCall
  /\ snapshot = NoSnapshot
  /\ component = newComponent

LiveTypes == {"basic", "heavy"}
LivePatterns == {"straight", "homing"}

\* one frame callback, an advancing clock between it and the step before
liveFrame ==
  /\ enemySpawner.waveNumber <= LiveMaxWave
  /\ \E dt \in DeltaTimes \ {0} : gameLoop(dt)
  /\ lastSpawn'.called =>
        \A i \in 1..Len(lastSpawn'.newEnemies) :
          LET type == lastSpawn'.newEnemies[i].enemyType
              pattern == lastSpawn'.newEnemies[i].attackPattern
          IN type # "boss" =>
               /\ type \in LiveTypes
               /\ pattern \in LivePatterns
               /\ pattern = "homing" =>
                    enemySpawner'.enemiesInCurrentWave = enemySpawner'.maxEnemiesPerWave
  /\ Len(gameState'.powerUps) = 0
  /\ frames' = 1 - frames
  /\ UNCHANGED component

liveMove(position) ==
  /\ gameState.gameStatus = "playing"
  /\ gameState.players[playerIndex(gameState, LivePlayerId)].position # position
  /\ updatePlayerPosition(LivePlayerId, position)
  /\ lastCall' = Call("updatePlayerPosition", LivePlayerId)
  /\ UNCHANGED <<calls, frames, component>>

NextLive ==
  \/ liveFrame
  \/ \E position \in LivePositions : liveMove(position)

\* liveFrame seen through frames alone: it can run in the states in which
\* liveTick can (a straight enemy and no power-up are among the draws of
\* every update), and it is the one step of NextLive that changes frames
liveTick ==
  /\ enemySpawner.waveNumber <= LiveMaxWave
  /\ gameLoopId = "pending"
  /\ frames' = 1 - frames

\* requestAnimationFrame runs the callback it was given: a frame callback
\* that stays requested is run
SpecLive == InitLive /\ [][NextLive]_vars /\ WF_frames(liveTick)

(***************************************************************************)
(* Properties                                                              *)
(***************************************************************************)
\* C1: a player's lives never increases and never goes below 0, and a
\* player is deactivated exactly at a hit that brings lives to 0.  Across an
\* update the players are compared as handleCollisions leaves them, before
\* the inactive ones are removed; across any other step a player that stays
\* keeps its lives and stays active.
C1_LivesMonotone ==
  [][IF lastTick'.ran
     THEN LET before == gameState.players
              after == lastTick'.collided.players
          IN /\ Len(after) = Len(before)
             /\ \A i \in 1..Len(before) :
                  /\ after[i].lives <= before[i].lives
                  /\ after[i].lives >= 0
                  /\ after[i].isActive <=> after[i].lives > 0
                  /\ (before[i].isActive /\ ~after[i].isActive)
                       <=> (before[i].lives > 0 /\ after[i].lives = 0)
             /\ gameState'.players = SelectSeq(after, isActiveObj)
     ELSE /\ Len(gameState'.players) >= Len(gameState.players) =>
               \A i \in 1..Len(gameState.players) :
                 /\ gameState'.players[i].lives = gameState.players[i].lives
                 /\ gameState'.players[i].isActive = gameState.players[i].isActive
          /\ Len(gameState'.players) < Len(gameState.players) =>
               \A k \in 1..Len(gameState'.players) :
                 \E i \in 1..Len(gameState.players) :
                   gameState'.players[k] = gameState.players[i]]_vars

\* an update in which a player lost its last life and was deactivated, while
\* another player stays in the game
C1_Witness ==
  /\ lastTick.ran
  /\ \E i \in 1..Len(lastTick.collided.players) :
       /\ lastTick.before.players[i].lives = 1
       /\ lastTick.collided.players[i].lives = 0
       /\ ~lastTick.collided.players[i].isActive
  /\ Len(gameState.players) = 1
  /\ gameState.gameStatus = "playing"

RECURSIVE killedPoints(_, _, _)
\* the points of the first n enemies that handleCollisions found active and
\* left inactive with no health: the enemies that player bullets killed
killedPoints(entered, left, n) ==
  IF n = 0 THEN 0
  ELSE killedPoints(entered, left, n - 1)
       + (IF entered[n].isActive /\ ~left[n].isActive /\ left[n].health <= 0
          THEN entered[n].points ELSE 0)

\* C3: score is non-decreasing across every update: no stage of the update
\* lowers it, and it changes only by the points of the enemies that player
\* bullets killed in handleCollisions.  No other step changes it.
C3_ScoreMonotone ==
  [][/\ gameState'.score >= gameState.score
     /\ IF lastTick'.ran
        THEN /\ lastTick'.before.score = gameState.score
             /\ lastTick'.physics.score = gameState.score
             /\ lastTick'.spawned.score = gameState.score
             /\ lastTick'.collided.score =
                  gameState.score + killedPoints(lastTick'.spawned.enemies,
                                                 lastTick'.collided.enemies,
                                                 Len(lastTick'.spawned.enemies))
             /\ gameState'.score = lastTick'.collided.score
        ELSE gameState'.score = gameState.score]_vars

\* an update in which a player bullet killed a basic enemy: score is 100
C3_Witness ==
  /\ lastTick.ran
  /\ gameState.score = 100
  /\ \E j \in 1..Len(lastTick.collided.enemies) :
       /\ lastTick.spawned.enemies[j].isActive
       /\ ~lastTick.collided.enemies[j].isActive
       /\ lastTick.collided.enemies[j].health <= 0
       /\ lastTick.collided.enemies[j].points = 100

\* the rectangle that constrainToScreen keeps obj in
contained(obj) ==
  /\ obj.size.width \div 2 <= obj.position.x
  /\ obj.position.x <= screenWidth - obj.size.width \div 2
  /\ obj.size.height \div 2 <= obj.position.y
  /\ obj.position.y <= screenHeight - obj.size.height \div 2

\* C9: after every PhysicsEngine.update every active player's position
\* satisfies halfWidth <= x <= screenWidth - halfWidth and
\* halfHeight <= y <= screenHeight - halfHeight.
C9_PlayersContained ==
  lastTick.ran =>
    \A i \in 1..Len(lastTick.physics.players) :
      lastTick.physics.players[i].isActive => contained(lastTick.physics.players[i])

\* an update that found a player outside the screen on two sides, where
\* updatePlayerPosition had put it, and brought it back to the corner
C9_Witness ==
  /\ lastTick.ran
  /\ \E i \in 1..Len(lastTick.physics.players) :
       /\ lastTick.before.players[i].position.x < 0
       /\ lastTick.before.players[i].position.y > screenHeight
       /\ lastTick.physics.players[i].position =
            Vec(lastTick.physics.players[i].size.width \div 2,
                screenHeight - lastTick.physics.players[i].size.height \div 2)

\* the last step was a call of EnemySpawner.update that found no active
\* enemy, the inter-wave delay elapsed and the quota of the wave spawned
NewWaveCall ==
  /\ lastSpawn.called
  /\ lastSpawn.activeEnemies = 0
  /\ (DateNow - lastSpawn.before.lastWaveTime) * Milli > lastSpawn.before.timeBetweenWaves
  /\ lastSpawn.before.enemiesInCurrentWave >= lastSpawn.before.maxEnemiesPerWave

\* C5 as stated: when EnemySpawner.update is called with no active enemy,
\* the inter-wave delay elapsed and the quota spawned, then on return
\* waveNumber has increased by exactly 1 and enemiesInCurrentWave is 0.
C5_NewWaveLeavesCountZero ==
  NewWaveCall =>
    /\ enemySpawner.waveNumber = lastSpawn.before.waveNumber + 1
    /\ enemySpawner.enemiesInCurrentWave = 0

\* C5 amended: in that case waveNumber has increased by exactly 1 on return
\* and enemiesInCurrentWave is 0, or 1 when more than the new spawn interval
\* has passed since the last spawn: the same call then returns the first
\* enemy of the new wave.
C5_NewWaveCountsFirstSpawn ==
  NewWaveCall =>
    /\ enemySpawner.waveNumber = lastSpawn.before.waveNumber + 1
    /\ enemySpawner.enemiesInCurrentWave =
         IF (DateNow - lastSpawn.before.lastSpawnTime) * Milli > enemySpawner.spawnInterval
         THEN 1 ELSE 0
    /\ enemySpawner.enemiesInCurrentWave = Len(lastSpawn.newEnemies)

\* a call that went from wave 1 to wave 2 and returned no enemy
C5_Witness ==
  /\ NewWaveCall
  /\ lastSpawn.before.waveNumber = 1
  /\ enemySpawner.waveNumber = 2
  /\ enemySpawner.enemiesInCurrentWave = 0

\* the game is on and its player has a life left
LivePlayerAlive ==
  gameState.gameStatus = "playing" /\ activeCount(gameState.players) > 0

\* every wave number that is reached is followed by a greater one
WaveAdvances ==
  \A n \in 1..LiveMaxWave :
    (enemySpawner.waveNumber = n) ~> (enemySpawner.waveNumber > n)

NoHomingEnemy ==
  \A i \in 1..Len(gameState.enemies) :
    ~(gameState.enemies[i].isActive /\ gameState.enemies[i].attackPattern = "homing")

C7_DifficultyMonotone ==
  [][/\ enemySpawner'.waveNumber >= enemySpawner.waveNumber
     /\ enemySpawner'.maxEnemiesPerWave >= enemySpawner.maxEnemiesPerWave
     /\ enemySpawner'.maxEnemiesPerWave <= 15
     /\ enemySpawner'.spawnInterval <= enemySpawner.spawnInterval
     /\ enemySpawner'.spawnInterval >= 500 * Milli
     /\ enemySpawner'.timeBetweenWaves <= enemySpawner.timeBetweenWaves
     /\ enemySpawner'.timeBetweenWaves >= 2000 * Milli]_vars

\* a call started a wave with every limit met: the quota already at 15, the
\* spawn interval already at 500 ms, the inter-wave delay cut to 2000 ms
C7_Witness ==
  /\ lastSpawn.called
  /\ enemySpawner.waveNumber = lastSpawn.before.waveNumber + 1
  /\ lastSpawn.before.maxEnemiesPerWave = 15
  /\ lastSpawn.before.spawnInterval = 500 * Milli
  /\ lastSpawn.before.timeBetweenWaves > 2000 * Milli
  /\ enemySpawner.maxEnemiesPerWave = 15
  /\ enemySpawner.spawnInterval = 500 * Milli
  /\ enemySpawner.timeBetweenWaves = 2000 * Milli

\* C8: every boss was created while waveNumber was divisible by 5 and after
\* at least 80% of the quota of that wave had been spawned, and no two
\* bosses were created during the same wave.
C8_BossCadence ==
  /\ \A i \in 1..Len(bossLog) :
       /\ bossLog[i].waveNumber % 5 = 0
       /\ bossLog[i].enemiesInCurrentWave * 10 >= bossLog[i].maxEnemiesPerWave * 8
  /\ \A i, j \in 1..Len(bossLog) :
       i # j => bossLog[i].waveNumber # bossLog[j].waveNumber

\* the bosses of waves 5 and 10 were created and wave 10 has spawned its quota
C8_Witness ==
  /\ Len(bossLog) = 2
  /\ bossLog[1].waveNumber = 5
  /\ bossLog[2].waveNumber = 10
  /\ enemySpawner.waveNumber = 10
  /\ enemySpawner.enemiesInCurrentWave = enemySpawner.maxEnemiesPerWave

\* the damages of the hits a step dealt to players: of the enemies that a
\* contact deactivated (their health is as before) and of the enemy bullets
\* that were deactivated
hitDamages ==
  {gameState.enemies[j].damage : j \in
     {j \in 1..Len(gameState.enemies) :
        /\ gameState.enemies[j].isActive
        /\ ~gameState'.enemies[j].isActive
        /\ gameState'.enemies[j].health = gameState.enemies[j].health}}
  \cup
  {gameState.bullets[b].damage : b \in
     {b \in 1..Len(gameState.bullets) :
        /\ startsWith(gameState.bullets[b].bulletType, "enemy")
        /\ gameState.bullets[b].isActive
        /\ ~gameState'.bullets[b].isActive}}

\* player q is player p after one hit of damage d, as C2 states it
hitOutcome(p, d, q) ==
  /\ p.isActive /\ p.lives >= 1
  /\ [q EXCEPT !.health = p.health, !.lives = p.lives, !.isActive = p.isActive] = p
  /\ IF p.health - d > 0
     THEN q.health = p.health - d /\ q.lives = p.lives /\ q.isActive
     ELSE q.lives = p.lives - 1 /\ q.health = p.maxHealth /\ (q.isActive <=> p.lives - 1 > 0)

\* every enemy of the ten-hit scenario has hit the player
tenHitsDone(g) ==
  /\ Len(g.enemies) = 10
  /\ \A j \in 1..10 : ~g.enemies[j].isActive

\* C2: one damaging hit of damage d (enemy contact or enemy bullet) on an
\* active player of health h, maxHealth m and lives L >= 1 gives health
\* h - d and the same lives if h - d > 0, and otherwise lives L - 1, health
\* m, the player active iff L - 1 > 0; no other player changes, and no player
\* changes without a hit.  Ten successive hits of damage 10 on the 100/100
\* player with 3 lives end with health 100, lives 2, active.
C2_HitOutcome ==
  [][/\ Len(gameState'.players) = Len(gameState.players)
     /\ hitDamages = {} => gameState'.players = gameState.players
     /\ \A d \in hitDamages :
          \E i \in 1..Len(gameState.players) :
            /\ hitOutcome(gameState.players[i], d, gameState'.players[i])
            /\ \A k \in 1..Len(gameState.players) :
                 k # i => gameState'.players[k] = gameState.players[k]
     /\ tenHitsDone(gameState') =>
          /\ gameState'.players[1].health = 100
          /\ gameState'.players[1].lives = 2
          /\ gameState'.players[1].isActive]_vars

\* the ten hits were dealt, and they cost the player one life
C2_Witness ==
  /\ tenHitsDone(gameState)
  /\ gameState.players[1].maxHealth = 100
  /\ gameState.players[1].lives = 2
  /\ Len(gameState.explosions) = 10

\* the player bullets that a step deactivated
spentBullets ==
  {b \in 1..Len(gameState.bullets) :
     /\ startsWith(gameState.bullets[b].bulletType, "player")
     /\ gameState.bullets[b].isActive
     /\ ~gameState'.bullets[b].isActive}

\* the enemies whose health a step changed
struckEnemies ==
  {j \in 1..Len(gameState.enemies) :
     gameState'.enemies[j].health # gameState.enemies[j].health}

\* C4: when a player bullet collides with an active enemy, the bullet is
\* deactivated and the health of the enemy drops by the damage of the
\* bullet; if it is then <= 0 the enemy is deactivated, score increases by
\* the points of the enemy and exactly one explosion is appended; if it
\* stays > 0 the enemy remains active, score is unchanged and no explosion
\* is appended.
C4_BulletHitsEnemy ==
  [][/\ Len(gameState'.enemies) = Len(gameState.enemies)
     /\ Len(gameState'.bullets) = Len(gameState.bullets)
     /\ struckEnemies # {} => spentBullets # {}
     /\ \A b \in spentBullets :
          \E j \in 1..Len(gameState.enemies) :
            LET enemy == gameState.enemies[j]
                struck == gameState'.enemies[j]
            IN /\ enemy.isActive
               /\ struckEnemies = {j}
               /\ struck.health = enemy.health - gameState.bullets[b].damage
               /\ IF struck.health <= 0
                  THEN /\ ~struck.isActive
                       /\ gameState'.score = gameState.score + enemy.points
                       /\ Len(gameState'.explosions) = Len(gameState.explosions) + 1
                       /\ SubSeq(gameState'.explosions, 1, Len(gameState.explosions))
                            = gameState.explosions
                  ELSE /\ struck.isActive
                       /\ gameState'.score = gameState.score
                       /\ gameState'.explosions = gameState.explosions]_vars

\* a bullet has killed the fast enemy of wave 5 and scored its points, and
\* another has struck the basic enemy, which survives it
C4_Witness ==
  /\ \E j \in 1..Len(gameState.enemies) :
       /\ ~gameState.enemies[j].isActive
       /\ gameState.enemies[j].health <= 0
       /\ gameState.score = gameState.enemies[j].points
  /\ \E j \in 1..Len(gameState.enemies) :
       /\ gameState.enemies[j].isActive
       /\ gameState.enemies[j].health < gameState.enemies[j].maxHealth
       /\ gameState.enemies[j].health > 0
  /\ Len(gameState.explosions) = 1

\* the last step was an update with deltaTime = 0
ZeroTick == lastTick.ran /\ lastTick.deltaTime = 0

\* the entities of each kind as the update found them and as
\* PhysicsEngine.update left them; it removes none and appends only bullets
tickEntities ==
  <<[found |-> lastTick.before.players, left |-> lastTick.physics.players],
    [found |-> lastTick.before.enemies, left |-> lastTick.physics.enemies],
    [found |-> lastTick.before.bullets, left |-> lastTick.physics.bullets],
    [found |-> lastTick.before.powerUps, left |-> lastTick.physics.powerUps]>>

\* the rotation updateGameObject gives an entity
turned(obj) ==
  IF obj.velocity.x # 0 \/ obj.velocity.y # 0 THEN Heading(obj.velocity) ELSE obj.rotation

\* C10 as stated: for deltaTime = 0, PhysicsEngine.update leaves the
\* position and the rotation of every player, enemy, bullet and power-up
\* unchanged.
C10_ZeroStepChangesNothing ==
  ZeroTick =>
    \A kind \in 1..4 :
      \A i \in 1..Len(tickEntities[kind].found) :
        /\ tickEntities[kind].left[i].position = tickEntities[kind].found[i].position
        /\ tickEntities[kind].left[i].rotation = tickEntities[kind].found[i].rotation

\* C10 amended: for deltaTime = 0, PhysicsEngine.update leaves unchanged
\* the position of every enemy and bullet and of every player that is
\* within the rectangle of constrainToScreen (a player outside is moved
\* into it); it moves an active power-up by its floating offset, at most
\* half a pixel up or down; and it sets the rotation of every active entity
\* with a velocity to the heading of that velocity, so that only the
\* rotation of an entity at rest or already heading so is unchanged.
C10_ZeroStepMovesWithinLimits ==
  ZeroTick =>
    /\ \A kind \in 1..4 :
         /\ Len(tickEntities[kind].left) >= Len(tickEntities[kind].found)
         /\ \A i \in 1..Len(tickEntities[kind].found) :
              LET found == tickEntities[kind].found[i]
                  left == tickEntities[kind].left[i]
              IN /\ left.rotation = IF found.isActive THEN turned(found) ELSE found.rotation
                 /\ kind \in {2, 3} \/ ~found.isActive => left.position = found.position
    /\ \A i \in 1..Len(lastTick.before.players) :
         /\ contained(lastTick.before.players[i])
              => lastTick.physics.players[i].position = lastTick.before.players[i].position
         /\ lastTick.before.players[i].isActive => contained(lastTick.physics.players[i])
    /\ \A k \in 1..Len(lastTick.before.powerUps) :
         /\ lastTick.physics.powerUps[k].position.x = lastTick.before.powerUps[k].position.x
         /\ Abs(lastTick.physics.powerUps[k].position.y
                 - lastTick.before.powerUps[k].position.y) <= PX \div 2

\* an update with deltaTime = 0 that found a player, an enemy and a bullet
\* and left each where it was
C10_Witness ==
  /\ ZeroTick
  /\ \A kind \in 1..3 :
       /\ Len(tickEntities[kind].found) > 0
       /\ tickEntities[kind].found[1].isActive
       /\ tickEntities[kind].left[1].position = tickEntities[kind].found[1].position

(***************************************************************************)
(* Culling in PhysicsEngine.update                                         *)
(***************************************************************************)
\* the enemies, bullets and power-ups of a state
Cullable == {"enemies", "bullets", "powerUps"}

\* element i of a collection was active when the physics of the last tick
\* reached it: it was active before the tick, or an enemy pushed it as a
\* bullet during the tick
reachedActive(kind, i) ==
  \/ i > Len(lastTick.before[kind])
  \/ lastTick.before[kind][i].isActive

\* outside the rectangle [-100, W + 100] x [-100, H + 100]
outsideRectangle(position) ==
  \/ position.x < 0 - margin
  \/ position.x > screenWidth + margin
  \/ position.y < 0 - margin
  \/ position.y > screenHeight + margin

\* on an edge of that rectangle or outside it
onOrOutsideRectangle(position) ==
  \/ position.x <= 0 - margin
  \/ position.x >= screenWidth + margin
  \/ position.y <= 0 - margin
  \/ position.y >= screenHeight + margin

\* physics removes no element and leaves an inactive one as it was
physicsKeepsElements ==
  /\ \A kind \in Cullable \cup {"players"} :
       Len(lastTick.physics[kind]) >= Len(lastTick.before[kind])
  /\ \A kind \in Cullable : \A i \in 1..Len(lastTick.before[kind]) :
       ~lastTick.before[kind][i].isActive
          => lastTick.physics[kind][i] = lastTick.before[kind][i]

\* C11 as stated: an active enemy, bullet or power-up is deactivated by
\* PhysicsEngine.update exactly when its position after integration lies
\* outside [-100, W + 100] x [-100, H + 100]; it stays in its collection,
\* and physics removes no element from any collection.
C11_CulledOutsideClosedRectangle ==
  lastTick.ran =>
    /\ physicsKeepsElements
    /\ \A kind \in Cullable : \A i \in 1..Len(lastTick.before[kind]) :
         lastTick.before[kind][i].isActive
            => (~lastTick.physics[kind][i].isActive
                  <=> outsideRectangle(
                        updateGameObject(lastTick.before[kind][i],
                                         lastTick.deltaTime).position))

\* C11: an active enemy, bullet or power-up is deactivated by
\* PhysicsEngine.update exactly when the position that the update leaves it
\* at (after integration and, for a power-up, after the floating offset) is
\* on an edge of or outside [-100, W + 100] x [-100, H + 100]; it stays in
\* its collection, and physics removes no element from any collection.
C11_CulledOnOrOutsideRectangle ==
  lastTick.ran =>
    /\ physicsKeepsElements
    /\ \A kind \in Cullable : \A i \in 1..Len(lastTick.physics[kind]) :
         reachedActive(kind, i)
            => (~lastTick.physics[kind][i].isActive
                  <=> onOrOutsideRectangle(lastTick.physics[kind][i].position))

\* an enemy was culled exactly on the bottom edge, and a power-up was culled
\* that integration alone had left inside the rectangle
C11_Witness ==
  /\ lastTick.ran
  /\ \E i \in 1..Len(lastTick.before.enemies) :
       /\ lastTick.before.enemies[i].isActive
       /\ ~lastTick.physics.enemies[i].isActive
       /\ lastTick.physics.enemies[i].position.y = screenHeight + margin
  /\ \E k \in 1..Len(lastTick.before.powerUps) :
       /\ lastTick.before.powerUps[k].isActive
       /\ ~lastTick.physics.powerUps[k].isActive
       /\ ~outsideRectangle(updateGameObject(lastTick.before.powerUps[k],
                                             lastTick.deltaTime).position)

(***************************************************************************)
(* checkCollision on the entities of a state                               *)
(***************************************************************************)
\* the box, and the activity, of every player, enemy, bullet and power-up
boxesOf(collection) ==
  {[position |-> collection[i].position, size |-> collection[i].size,
    isActive |-> collection[i].isActive] : i \in 1..Len(collection)}

Boxes ==
  boxesOf(gameState.players) \cup boxesOf(gameState.enemies)
    \cup boxesOf(gameState.bullets) \cup boxesOf(gameState.powerUps)

\* C12: checkCollision is symmetric: checkCollision(a, b) equals
\* checkCollision(b, a) for all entities a and b.
C12_CollisionSymmetric ==
  \A a \in Boxes, b \in Boxes : checkCollision(a, b) = checkCollision(b, a)

\* two entities of different sizes collide, and an inactive entity lies over
\* an active one
C12_Witness ==
  /\ \E a \in Boxes, b \in Boxes : a.size # b.size /\ checkCollision(a, b)
  /\ \E a \in Boxes, b \in Boxes :
       /\ ~a.isActive /\ b.isActive
       /\ checkAABBCollision(a.position, a.size, b.position, b.size)

\* the boxes centred on the positions, as wide and high as the sizes, overlap
\* on an axis: the centres are closer than half the sum of the extents
overlapsOn(c1, extent1, c2, extent2) == 2 * Abs(c1 - c2) < extent1 + extent2

\* the same boxes at most touch on an axis
touchesOn(c1, extent1, c2, extent2) == 2 * Abs(c1 - c2) = extent1 + extent2

strictlyOverlap(a, b) ==
  /\ overlapsOn(a.position.x, a.size.width, b.position.x, b.size.width)
  /\ overlapsOn(a.position.y, a.size.height, b.position.y, b.size.height)

\* C13: checkCollision(a, b) is false whenever a or b is inactive;
\* otherwise it is true iff the two boxes centred on the positions with
\* full extents equal to the sizes strictly overlap on both axes, so boxes
\* that only touch along an edge or at a corner do not collide.
C13_CollisionIsStrictOverlap ==
  \A a \in Boxes, b \in Boxes :
    checkCollision(a, b) <=> a.isActive /\ b.isActive /\ strictlyOverlap(a, b)

\* two boxes touch along an edge: they touch on one axis and overlap on the
\* other
touchAlongEdge(a, b) ==
  \/ /\ touchesOn(a.position.x, a.size.width, b.position.x, b.size.width)
     /\ overlapsOn(a.position.y, a.size.height, b.position.y, b.size.height)
  \/ /\ overlapsOn(a.position.x, a.size.width, b.position.x, b.size.width)
     /\ touchesOn(a.position.y, a.size.height, b.position.y, b.size.height)

\* after a collision pass: two active boxes touch along an edge, two
\* different active boxes overlap, and an inactive box lies over an active
\* one
C13_Witness ==
  /\ ~lastTick.ran /\ calls > 0
  /\ \E a \in Boxes, b \in Boxes : a.isActive /\ b.isActive /\ touchAlongEdge(a, b)
  /\ \E a \in Boxes, b \in Boxes :
       a.isActive /\ b.isActive /\ a # b /\ strictlyOverlap(a, b)
  /\ \E a \in Boxes, b \in Boxes : ~a.isActive /\ b.isActive /\ strictlyOverlap(a, b)

(***************************************************************************)
(* The calls that address a player                                         *)
(***************************************************************************)
\* C14: playerShoot(playerId) has no effect on the bullet collection, or on
\* any other part of the game state, whenever gameStatus is not PLAYING.
C14_ShotOutsidePlayChangesNothing ==
  [][lastCall'.name = "playerShoot" /\ gameState.gameStatus # "playing"
       => gameState' = gameState]_vars

\* playerShoot was called for a player of the game while the game was
\* paused
C14_Witness ==
  /\ lastCall.name = "playerShoot"
  /\ playerIndex(gameState, lastCall.playerId) # 0
  /\ gameState.gameStatus = "paused"

\* the bullets that the last step appended
appended == SubSeq(gameState'.bullets, Len(gameState.bullets) + 1, Len(gameState'.bullets))

\* where the bullets of a player start: the middle of its upper edge
muzzle(player) == Vec(player.position.x, player.position.y - player.size.height \div 2)

\* C15: while gameStatus is PLAYING, playerShoot for an existing player
\* appends one or more bullets whatever weapon the player holds: exactly one
\* centred bullet for basic and exactly three bullets, with x-velocity
\* offsets -50, 0 and 50, for spread, each owned by that player and tagged
\* as of player origin.
C15_ShotAppendsBullets ==
  [][LET i == playerIndex(gameState, lastCall'.playerId)
         player == gameState.players[i]
     IN lastCall'.name = "playerShoot" /\ gameState.gameStatus = "playing" /\ i # 0
          => /\ Len(gameState'.bullets) >= Len(gameState.bullets) + 1
             /\ SubSeq(gameState'.bullets, 1, Len(gameState.bullets)) = gameState.bullets
             /\ \A k \in 1..Len(appended) :
                  /\ appended[k].ownerId = player.playerId
                  /\ startsWith(appended[k].bulletType, "player")
                  /\ appended[k].isActive
             /\ player.weaponType = "basic"
                  => /\ Len(appended) = 1
                     /\ appended[1].position = muzzle(player)
                     /\ appended[1].velocity = Vec(0, 0 - bulletSpeed)
             /\ player.weaponType = "spreadShot"
                  => /\ Len(appended) = 3
                     /\ \A k \in 1..3 :
                          appended[k].velocity = Vec((k - 2) * 50, 0 - bulletSpeed)]_vars

\* C16: removePlayer, updatePlayerPosition and playerShoot called with a
\* player identifier that is not present in the state leave the game state
\* unchanged (same players, bullets, score, status), and the call completes.
C16_UnknownPlayerChangesNothing ==
  [][(lastCall'.name \in {"removePlayer", "updatePlayerPosition", "playerShoot"}
        /\ playerIndex(gameState, lastCall'.playerId) = 0)
       => /\ gameState' = gameState
          /\ UNCHANGED <<lastUpdateTime, gameLoopId, pendingFrames, enemySpawner, powerUpSpawner>>]_vars

\* updatePlayerPosition was called in a running game for a player that is
\* not among its players
C16_Witness ==
  /\ lastCall.name = "updatePlayerPosition"
  /\ playerIndex(gameState, lastCall.playerId) = 0
  /\ Len(gameState.players) > 0
  /\ gameState.gameStatus = "playing"

(***************************************************************************)
(* The status of the game                                                  *)
(***************************************************************************)
\* C17: under any sequence of startGame, pauseGame, resumeGame, stopGame
\* calls and update ticks, gameStatus only moves along the edges menu ->
\* playing, playing -> paused, paused -> playing, playing -> game over and
\* paused -> game over; in particular pauseGame never leaves menu or game
\* over, and resumeGame never leaves game over or menu.
C17_StatusEdges ==
  [][\/ gameState'.gameStatus = gameState.gameStatus
     \/ <<gameState.gameStatus, gameState'.gameStatus>> \in
          {<<"menu", "playing">>, <<"playing", "paused">>, <<"paused", "playing">>,
           <<"playing", "gameOver">>, <<"paused", "gameOver">>}]_vars

\* C18: whenever an update finishes with no active player in the state,
\* gameStatus is GAME_OVER at the end of that update, and no further update
\* executes until startGame or resumeGame is called again: an update runs
\* in a playing game only, and a game that is not playing becomes playing by
\* one of these two calls only.
C18_GameOverStopsUpdates ==
  [][/\ (lastTick'.ran /\ activeCount(gameState'.players) = 0)
          => gameState'.gameStatus = "gameOver"
     /\ lastTick'.ran => gameState.gameStatus = "playing"
     /\ (gameState.gameStatus # "playing" /\ gameState'.gameStatus = "playing")
          => lastCall'.name \in {"startGame", "resumeGame"}]_vars

\* an update has ended the game in which the last active player was
\* destroyed
C18_Witness ==
  /\ lastTick.ran
  /\ activeCount(lastTick.before.players) > 0
  /\ activeCount(gameState.players) = 0
  /\ gameState.gameStatus = "gameOver"

\* C19: between pauseGame and the following resumeGame, while the game is
\* paused, no update is executed and timeElapsed does not change; the first
\* update after
\* resumeGame adds to timeElapsed only the time elapsed since resumeGame,
\* never the duration of the pause: resumeGame sets the time of the last
\* update to the present, and an update adds the time from then to its
\* frame, one of DeltaTimes.
C19_PauseStopsTheClock ==
  [][/\ gameState.gameStatus = "paused"
          => ~lastTick'.ran /\ gameState'.timeElapsed = gameState.timeElapsed
     /\ lastCall'.name = "resumeGame"
          => lastUpdateTime' = DateNow /\ gameState'.timeElapsed = gameState.timeElapsed
     /\ lastTick'.ran
          => /\ lastTick'.deltaTime \in DeltaTimes
             /\ gameState'.timeElapsed = gameState.timeElapsed + lastTick'.deltaTime]_vars

\* a game with a player that ran for half a second has been paused for
\* MaxAge ms
C19_Witness ==
  /\ gameState.gameStatus = "paused"
  /\ lastCall = NoCall
  /\ lastUpdateTime = 0 - MaxAge
  /\ gameState.timeElapsed = 500
  /\ Len(gameState.players) > 0

(***************************************************************************)
(* Snapshots                                                               *)
(***************************************************************************)
\* C20: a snapshot returned by getGameState is an immutable copy: no later
\* engine operation (updatePlayerPosition, playerShoot) changes the entity
\* lists or the entity fields visible through a snapshot returned before.
C20_SnapshotImmutable ==
  snapshot.taken =>
    /\ snapshotRead.players = snapshot.state.players
    /\ snapshotRead.enemies = snapshot.state.enemies
    /\ snapshotRead.bullets = snapshot.state.bullets
    /\ snapshotRead.powerUps = snapshot.state.powerUps

inSession == component.isMultiplayerMode /\ component.currentRoomId # NoRoom

\* the state handed to the callback by the last update is among the payloads
\* emitted in the session
snapshotSentOut ==
  inSession /\ lastTick.ran
    => \E k \in 1..Len(component.wire) : component.wire[k].gameState = gameState

\* the state of the last inbound gameStateUpdate is the state the component holds
inboundReplacesState ==
  inSession /\ component.inbound.received
    => component.gameState = component.inbound.gameState

\* C21: in a multiplayer session the snapshot that an update hands to the
\* state-update callback is sent out, and a snapshot delivered as an inbound
\* gameStateUpdate replaces the state the component holds whole, so that
\* the component holds the delivered players, enemies, bullets and power-ups
\* with their ids, positions and health.
C21_SnapshotRoundTrip == snapshotSentOut /\ inboundReplacesState

\* a multiplayer session in which an update ran and an inbound state arrived
C21_Session ==
  /\ inSession
  /\ component.inbound.received
  /\ Len(component.gameState.enemies) > 0

powerUpUpdateCalled == lastCall' = Call("PowerUpSpawner.update", "")

\* C22: a call of PowerUpSpawner.update returns at most one power-up, and
\* none when less than the spawn interval has passed since the last spawn or
\* when 3 or more power-ups are active; the state never holds more than 3
\* active power-ups.
C22_PowerUpCap ==
  [][/\ activeCount(gameState'.powerUps) <= 3
     /\ powerUpUpdateCalled =>
          (/\ Len(gameState'.powerUps) - Len(gameState.powerUps) \in {0, 1}
           /\ SubSeq(gameState'.powerUps, 1, Len(gameState.powerUps)) = gameState.powerUps
           /\ (\/ DateNow - powerUpSpawner.lastSpawnTime < powerUpSpawner.spawnInterval
               \/ activeCount(gameState.powerUps) >= 3)
                => gameState'.powerUps = gameState.powerUps)]_vars

\* a call made when the interval had passed and 3 power-ups were active,
\* beside an inactive one
C22_Witness ==
  /\ lastCall = Call("PowerUpSpawner.update", "")
  /\ activeCount(gameState.powerUps) = 3
  /\ Len(gameState.powerUps) > 3
  /\ DateNow - powerUpSpawner.lastSpawnTime >= powerUpSpawner.spawnInterval

rewardTypes == [i \in 1..Len(lastSpawn.rewards) |-> lastSpawn.rewards[i].powerUpType]

rewardPlace(type) ==
  LET boss == lastSpawn.bossPosition
  IN CASE type = "health" -> Vec(boss.x - 30 * PX, boss.y)
       [] type = "weaponUpgrade" -> Vec(boss.x + 30 * PX, boss.y)
       [] OTHER -> Vec(boss.x, boss.y + 30 * PX)

\* C23: spawnBossDefeatReward(bossPosition) returns one health power-up,
\* then optionally a weapon upgrade, then optionally a score multiplier,
\* whatever the spawn timer is, and each of them is placed relative to
\* bossPosition: health at x - 30, weapon upgrade at x + 30, score
\* multiplier at y + 30.
C23_BossRewardPlaced ==
  lastSpawn.called =>
    /\ rewardTypes \in {<<"health">>, <<"health", "weaponUpgrade">>,
                        <<"health", "scoreMultiplier">>,
                        <<"health", "weaponUpgrade", "scoreMultiplier">>}
    /\ \A i \in 1..Len(lastSpawn.rewards) :
         lastSpawn.rewards[i].position = rewardPlace(lastSpawn.rewards[i].powerUpType)

\* C24: a call of EnemySpawner.update changes waveNumber only if at entry
\* no enemy was active, more than timeBetweenWaves had passed since the
\* last wave started and enemiesInCurrentWave had reached
\* maxEnemiesPerWave.
C24_WaveStartsOnlyWhenDue ==
  lastSpawn.called /\ enemySpawner.waveNumber # lastSpawn.before.waveNumber =>
    /\ lastSpawn.activeEnemies = 0
    /\ (DateNow - lastSpawn.before.lastWaveTime) * Milli > lastSpawn.before.timeBetweenWaves
    /\ lastSpawn.before.enemiesInCurrentWave >= lastSpawn.before.maxEnemiesPerWave
    /\ enemySpawner.waveNumber = lastSpawn.before.waveNumber + 1

\* a call that started wave 3 and returned its first enemy
C24_Witness ==
  /\ lastSpawn.called
  /\ lastSpawn.before.waveNumber = 2
  /\ enemySpawner.waveNumber = 3
  /\ Len(lastSpawn.newEnemies) = 1

\* C25: whatever the order of startGame, pauseGame, resumeGame, stopGame
\* and frame callbacks, at most one frame callback is pending, and it is
\* the one whose id gameLoopId holds.
C25_OneFramePending ==
  /\ pendingFrames \in {0, 1}
  /\ pendingFrames = 1 <=> gameLoopId = "pending"

\* an update ended the game and its callback requested one more frame,
\* after calls that started the loop twice
C25_Witness ==
  /\ lastTick.ran
  /\ gameState.gameStatus = "gameOver"
  /\ calls >= 3
  /\ pendingFrames = 1

allActive(objs) == \A i \in 1..Len(objs) : objs[i].isActive

activeOnes(objs) == SelectSeq(objs, LAMBDA obj : obj.isActive)

\* the entities of one collection at the four points of the tick: none has
\* left the collection when the collision passes are over, and those
\* active at that point are the collection that update leaves behind
cleanedAfterCollisions(before, physics, spawned, collided, left) ==
  /\ Len(physics) >= Len(before)
  /\ Len(spawned) >= Len(physics)
  /\ Len(collided) = Len(spawned)
  /\ left = activeOnes(collided)
  /\ allActive(left)

\* C26: when update returns, players, enemies, bullets and power-ups hold
\* active entities only: those that the tick deactivated are removed by its
\* cleanup pass, and none is removed before its collision passes have run.
C26_CleanupAfterCollisions ==
  lastTick.ran =>
    /\ cleanedAfterCollisions(lastTick.before.players, lastTick.physics.players,
                              lastTick.spawned.players, lastTick.collided.players,
                              gameState.players)
    /\ cleanedAfterCollisions(lastTick.before.enemies, lastTick.physics.enemies,
                              lastTick.spawned.enemies, lastTick.collided.enemies,
                              gameState.enemies)
    /\ cleanedAfterCollisions(lastTick.before.bullets, lastTick.physics.bullets,
                              lastTick.spawned.bullets, lastTick.collided.bullets,
                              gameState.bullets)
    /\ cleanedAfterCollisions(lastTick.before.powerUps, lastTick.physics.powerUps,
                              lastTick.spawned.powerUps, lastTick.collided.powerUps,
                              gameState.powerUps)

\* a tick whose physics culled a bullet and whose collision passes
\* deactivated a player, both removed when it returned
C26_Witness ==
  /\ lastTick.ran
  /\ ~allActive(lastTick.physics.bullets)
  /\ allActive(lastTick.spawned.players)
  /\ ~allActive(lastTick.collided.players)
  /\ Len(gameState.players) < Len(lastTick.collided.players)
  /\ Len(gameState.bullets) < Len(lastTick.collided.bullets)

passesRan == lastCall = Call("handleCollisions", "")

\* the bullets of one kind that a pass found active and left inactive
spentIn(from, to, prefix) ==
  {b \in 1..Len(from.bullets) :
     /\ startsWith(from.bullets[b].bulletType, prefix)
     /\ from.bullets[b].isActive
     /\ ~to.bullets[b].isActive}

\* the entities that a pass changed
changedIn(from, to) == {i \in 1..Len(from) : to[i] # from[i]}

RECURSIVE healthLost(_, _, _)
healthLost(from, to, n) ==
  IF n = 0 THEN 0 ELSE healthLost(from, to, n - 1) + from[n].health - to[n].health

RECURSIVE damageOf(_, _)
damageOf(bullets, spent) ==
  IF spent = {} THEN 0
  ELSE LET b == CHOOSE x \in spent : TRUE
       IN bullets[b].damage + damageOf(bullets, spent \ {b})

\* no active bullet of the kind is left on an active target
noneLeftOn(bullets, targets, prefix) ==
  \A b \in 1..Len(bullets), j \in 1..Len(targets) :
    startsWith(bullets[b].bulletType, prefix) => ~checkCollision(bullets[b], targets[j])

\* C27: in one run of handleCollisions a bullet is spent on its first
\* collision.  Each player bullet spent in the bullet x enemy pass took its
\* damage from one enemy, the only one changed when one bullet is spent;
\* each enemy bullet spent in the bullet x player pass hit one player, the
\* only one changed when one bullet is spent; a bullet of either kind that
\* still lies on an active target of its pass has been spent, and no other
\* pass changes a bullet, nor these two passes anything but the bullets,
\* their targets, the score and the explosions.
C27_BulletSpentOnFirstHit ==
  passesRan =>
    LET T == lastTick
        spentOnEnemies == spentIn(T.contact, T.struck, "player")
        spentOnPlayers == spentIn(T.struck, T.shot, "enemy")
    IN /\ changedIn(T.contact.bullets, T.struck.bullets) = spentOnEnemies
       /\ changedIn(T.struck.bullets, T.shot.bullets) = spentOnPlayers
       /\ healthLost(T.contact.enemies, T.struck.enemies, Len(T.contact.enemies))
            = damageOf(T.contact.bullets, spentOnEnemies)
       /\ Cardinality(changedIn(T.contact.enemies, T.struck.enemies))
            <= Cardinality(spentOnEnemies)
       /\ Cardinality(changedIn(T.struck.players, T.shot.players))
            <= Cardinality(spentOnPlayers)
       /\ spentOnEnemies # {} => changedIn(T.contact.enemies, T.struck.enemies) # {}
       /\ spentOnPlayers # {} => changedIn(T.struck.players, T.shot.players) # {}
       /\ noneLeftOn(T.struck.bullets, T.struck.enemies, "player")
       /\ noneLeftOn(T.shot.bullets, T.shot.players, "enemy")
       /\ T.contact.bullets = T.entered.bullets
       /\ T.collected.bullets = T.shot.bullets
       /\ T.struck.players = T.contact.players
       /\ T.shot.enemies = T.struck.enemies
       /\ T.struck.powerUps = T.contact.powerUps
       /\ T.shot.powerUps = T.struck.powerUps

\* a run in which one player bullet lay on two active enemies and one
\* enemy bullet on two active players: each was spent on one of them
C27_Witness ==
  /\ passesRan
  /\ Len(lastTick.entered.players) = 2
  /\ Cardinality({j \in 1..Len(lastTick.contact.enemies) :
                    /\ lastTick.contact.enemies[j].isActive
                    /\ lastTick.contact.enemies[j].position = EnemySpot}) = 2
  /\ Cardinality(spentIn(lastTick.contact, lastTick.struck, "player")) = 1
  /\ Cardinality(changedIn(lastTick.contact.enemies, lastTick.struck.enemies)) = 1
  /\ Cardinality(spentIn(lastTick.struck, lastTick.shot, "enemy")) = 1
  /\ Cardinality(changedIn(lastTick.struck.players, lastTick.shot.players)) = 1
  /\ \A i \in 1..2 : lastTick.struck.players[i].isActive

\* the explosions that a pass appended
explosionsOf(from, to) ==
  SubSeq(to.explosions, Len(from.explosions) + 1, Len(to.explosions))

\* a player after damage was dealt to it
damaged(player, damage) ==
  IF player.health - damage <= 0
  THEN [player EXCEPT !.lives = player.lives - 1, !.health = player.maxHealth,
                      !.isActive = player.lives - 1 > 0]
  ELSE [player EXCEPT !.health = player.health - damage]

\* C28: the player x enemy pass deactivates every enemy it handles and
\* changes nothing else of it, whatever health it has left; it appends one
\* explosion for each, at the enemy's position, and leaves the score as it
\* was; an enemy that lies on several players damages one of them only.
C28_ContactRemovesEnemy ==
  passesRan =>
    LET T == lastTick
        hitEnemies == changedIn(T.entered.enemies, T.contact.enemies)
        hitPlayers == changedIn(T.entered.players, T.contact.players)
        explosions == explosionsOf(T.entered, T.contact)
    IN /\ \A j \in hitEnemies :
            /\ T.entered.enemies[j].isActive
            /\ T.contact.enemies[j] = [T.entered.enemies[j] EXCEPT !.isActive = FALSE]
            /\ \E i \in 1..Len(T.entered.players) :
                 checkCollision(T.entered.players[i], T.entered.enemies[j])
       /\ \A i \in 1..Len(T.contact.players), j \in 1..Len(T.contact.enemies) :
            ~checkCollision(T.contact.players[i], T.contact.enemies[j])
       /\ SubSeq(T.contact.explosions, 1, Len(T.entered.explosions)) = T.entered.explosions
       /\ Len(explosions) = Cardinality(hitEnemies)
       /\ \A j \in hitEnemies :
            \E k \in 1..Len(explosions) :
              /\ explosions[k].position = T.entered.enemies[j].position
              /\ explosions[k].size = Size(30 * PX, 30 * PX)
       /\ T.contact.score = T.entered.score
       /\ Cardinality(hitPlayers) <= Cardinality(hitEnemies)
       /\ \A j \in hitEnemies :
            hitEnemies = {j} =>
              \E i \in 1..Len(T.entered.players) :
                /\ hitPlayers = {i}
                /\ T.contact.players[i]
                     = damaged(T.entered.players[i], T.entered.enemies[j].damage)
       /\ T.contact.bullets = T.entered.bullets
       /\ T.contact.powerUps = T.entered.powerUps

\* a heavy enemy of 25 health lay on two players: it is gone with its
\* health, and the first player alone took its damage
C28_Witness ==
  /\ passesRan
  /\ Len(lastTick.entered.players) = 2
  /\ \E j \in 1..Len(lastTick.entered.enemies) :
       /\ lastTick.entered.enemies[j].position = PlayerSpot
       /\ lastTick.entered.enemies[j].isActive
       /\ ~lastTick.contact.enemies[j].isActive
       /\ lastTick.contact.enemies[j].health = 25
  /\ changedIn(lastTick.entered.players, lastTick.contact.players) = {1}
  /\ lastTick.contact.players[2] = lastTick.entered.players[2]

\* the enemies that a pass found active and left inactive
destroyedIn(from, to) ==
  {j \in 1..Len(from.enemies) : from.enemies[j].isActive /\ ~to.enemies[j].isActive}

\* C29: in one run of handleCollisions the bullet x player pass appends no
\* explosion, whatever a hit costs the player, and neither does the
\* player x power-up pass; the player x enemy pass and the bullet x enemy
\* pass append one explosion for each enemy they deactivate and none else.
C29_ExplosionsFromEnemiesOnly ==
  passesRan =>
    LET T == lastTick
    IN /\ T.shot.explosions = T.struck.explosions
       /\ T.collected.explosions = T.shot.explosions
       /\ Len(explosionsOf(T.entered, T.contact))
            = Cardinality(destroyedIn(T.entered, T.contact))
       /\ Len(explosionsOf(T.contact, T.struck))
            = Cardinality(destroyedIn(T.contact, T.struck))
       /\ SubSeq(T.struck.explosions, 1, Len(T.entered.explosions)) = T.entered.explosions

\* a run in which enemy bullets cost the first player its last life and
\* no enemy was destroyed: no explosion was appended
C29_Witness ==
  /\ passesRan
  /\ spentIn(lastTick.struck, lastTick.shot, "enemy") # {}
  /\ lastTick.struck.players[1].isActive
  /\ ~lastTick.shot.players[1].isActive
  /\ lastTick.shot.players[1].lives < lastTick.struck.players[1].lives
  /\ destroyedIn(lastTick.entered, lastTick.struck) = {}
  /\ lastTick.collected.explosions = lastTick.entered.explosions

\* the power-ups that the player x power-up pass found active and left inactive
consumedPowerUps ==
  {k \in 1..Len(lastTick.shot.powerUps) :
     lastTick.shot.powerUps[k].isActive /\ ~lastTick.collected.powerUps[k].isActive}

RECURSIVE healthGiven(_, _)
healthGiven(powerUps, consumed) ==
  IF consumed = {} THEN 0
  ELSE LET k == CHOOSE x \in consumed : TRUE
       IN (IF powerUps[k].powerUpType = "health" THEN powerUps[k].effect.value \div 10 ELSE 0)
          + healthGiven(powerUps, consumed \ {k})

explosionsAged == lastCall = Call("updateExplosions", "")

\* the explosions of a sequence that deltaTime more ms leave short of their
\* duration
outlasting(explosions, deltaTime) ==
  SelectSeq(explosions, LAMBDA e : e.currentFrame + deltaTime < e.duration)

\* C31: when updateExplosions has run, every explosion of the state has
\* 0 <= currentFrame < duration = 500 and a progress within [0, 1] (kept in
\* thousandths); the explosions left are those whose time so far plus
\* deltaTime is short of the duration, in their order, each deltaTime
\* older and otherwise as it was, so that an explosion goes in the first
\* update in which its time reaches the duration, which is the update that
\* created it when deltaTime is 500 or more.
C31_ExplosionsEndOnTime ==
  explosionsAged =>
    LET before == lastTick.cleaned.explosions
        deltaTime == lastTick.deltaTime
        kept == outlasting(before, deltaTime)
        left == gameState.explosions
    IN /\ \A i \in 1..Len(left) :
            /\ left[i].duration = 500
            /\ 0 <= left[i].currentFrame /\ left[i].currentFrame < left[i].duration
            /\ 0 <= left[i].animationProgress /\ left[i].animationProgress <= 1000
       /\ Len(left) = Len(kept)
       /\ \A i \in 1..Len(kept) :
            /\ left[i].currentFrame = kept[i].currentFrame + deltaTime
            /\ left[i].position = kept[i].position
            /\ left[i].size = kept[i].size
       /\ (deltaTime >= 500) => left = <<>>

\* an update of 500 ms or more in which handleCollisions created an
\* explosion beside an older one: neither is left
C31_Witness ==
  /\ explosionsAged
  /\ lastTick.deltaTime >= 500
  /\ \E i, j \in 1..Len(lastTick.cleaned.explosions) :
       /\ lastTick.cleaned.explosions[i].currentFrame = 0
       /\ lastTick.cleaned.explosions[j].currentFrame > 0
  /\ gameState.explosions = <<>>

\* the bullets that the last PhysicsEngine.update pushed
firedBullets ==
  SubSeq(lastTick.physics.bullets, Len(lastTick.before.bullets) + 1,
         Len(lastTick.physics.bullets))

\* the enemies that the update found active, processed before, and with
\* more than the interval of their type since lastShotTime
dueEnemies ==
  {i \in 1..Len(lastTick.before.enemies) :
     LET enemy == lastTick.before.enemies[i]
     IN /\ enemy.isActive
        /\ enemy.lastShotTime # NoTime
        /\ DateNow - enemy.lastShotTime
             > (CASE enemy.enemyType = "basic" -> 2000
                  [] enemy.enemyType = "fast" -> 1500
                  [] enemy.enemyType = "heavy" -> 3000
                  [] enemy.enemyType = "boss" -> 1000)}

\* C32: one PhysicsEngine.update pushes one bullet for each active enemy
\* that it has processed before and whose last shot (or first processing)
\* is more than the interval of its type old, and no other bullet: none
\* for an enemy it processes for the first time, none within the interval.
\* The enemy that fired has lastShotTime at the time of the update, an
\* enemy processed for the first time too, any other keeps its own.  Each
\* bullet pushed is of type enemyBasic, owned by no player, with velocity
\* (0, 150).
C32_EnemyFireInterval ==
  lastTick.ran =>
    LET before == lastTick.before.enemies
        after == lastTick.physics.enemies
    IN /\ Len(firedBullets) = Cardinality(dueEnemies)
       /\ \A b \in 1..Len(firedBullets) :
            /\ firedBullets[b].bulletType = "enemyBasic"
            /\ firedBullets[b].velocity = Vec(0, 150)
            /\ \A p \in 1..Len(lastTick.before.players) :
                 firedBullets[b].ownerId # lastTick.before.players[p].playerId
       /\ \A i \in 1..Len(before) :
            after[i].lastShotTime =
              IF before[i].isActive /\ (i \in dueEnemies \/ before[i].lastShotTime = NoTime)
              THEN DateNow ELSE before[i].lastShotTime

\* an update in which the boss and the basic enemy beside it both fire,
\* the boss not for the first time, while another enemy bullet is in flight
C32_Witness ==
  /\ lastTick.ran
  /\ Cardinality(dueEnemies) = 2
  /\ Len(firedBullets) = 2
  /\ \E b \in 1..Len(lastTick.before.bullets) :
       /\ lastTick.before.bullets[b].bulletType = "enemyBasic"
       /\ lastTick.before.bullets[b].isActive

\* the regular enemies and the bosses that the last EnemySpawner.update returned
regularSpawned ==
  SelectSeq(lastSpawn.newEnemies, LAMBDA e : e.enemyType # "boss")

bossesSpawned ==
  SelectSeq(lastSpawn.newEnemies, LAMBDA e : e.enemyType = "boss")

\* C33: a call of EnemySpawner.update returns at most one regular enemy and
\* at most one boss.  The regular enemy is basic, or fast in a wave from
\* the second on, or heavy in a wave from the third on, the wave being the
\* one the spawner is in when the call returns; it is straight or zigzag
\* when basic or fast, straight or homing when heavy; a boss is circular.
\* A regular enemy is returned only when more than the spawn interval has
\* passed since the last spawn and the wave has not spawned its quota,
\* interval and quota being those of the wave the spawner is in when it
\* creates the enemy.
C33_SpawnedTypeAndPattern ==
  lastSpawn.called =>
    /\ Len(regularSpawned) <= 1
    /\ Len(bossesSpawned) <= 1
    /\ \A i \in 1..Len(bossesSpawned) : bossesSpawned[i].attackPattern = "circular"
    /\ \A i \in 1..Len(regularSpawned) :
         LET enemy == regularSpawned[i]
             wave == enemySpawner.waveNumber
         IN /\ \/ enemy.enemyType = "basic"
               \/ enemy.enemyType = "fast" /\ wave >= 2
               \/ enemy.enemyType = "heavy" /\ wave >= 3
            /\ \/ enemy.attackPattern = "straight"
               \/ enemy.attackPattern = "zigzag" /\ enemy.enemyType \in {"basic", "fast"}
               \/ enemy.attackPattern = "homing" /\ enemy.enemyType = "heavy"
            /\ (DateNow - lastSpawn.before.lastSpawnTime) * Milli > enemySpawner.spawnInterval
            /\ enemySpawner.enemiesInCurrentWave - 1 < enemySpawner.maxEnemiesPerWave
            /\ enemySpawner.enemiesInCurrentWave >= 1

\* a call in wave 5 that returned the boss and a homing heavy enemy
C33_Witness ==
  /\ lastSpawn.called
  /\ enemySpawner.waveNumber = 5
  /\ Len(bossesSpawned) = 1
  /\ Len(regularSpawned) = 1
  /\ regularSpawned[1].enemyType = "heavy"
  /\ regularSpawned[1].attackPattern = "homing"

\* the base values of a regular type: health, damage, speed, points, and
\* what a wave adds to the speed
baseStats(type) ==
  CASE type = "basic" -> [health |-> 10, damage |-> 10, speed |-> 80, points |-> 100, faster |-> 5]
    [] type = "fast" -> [health |-> 5, damage |-> 8, speed |-> 150, points |-> 150, faster |-> 8]
    [] type = "heavy" -> [health |-> 25, damage |-> 20, speed |-> 50, points |-> 300, faster |-> 3]

\* base x (1 + (wave - 1) x per / 100), rounded down
linear(base, per, wave) == (base * (100 + per * (wave - 1))) \div 100

\* value is that product rounded down, or one less where the product is a
\* whole number (which binary floating point can fall short of)
roundedDown(value, base, per, wave) ==
  \/ value = linear(base, per, wave)
  \/ /\ value = linear(base, per, wave) - 1
     /\ (base * (100 + per * (wave - 1))) % 100 = 0

healthWithinLimits(g) ==
  \A i \in 1..Len(g.players) :
    /\ 1 <= g.players[i].health
    /\ g.players[i].health <= g.players[i].maxHealth
    /\ (~g.players[i].isActive /\ g.players[i].lives <= 0)
          => g.players[i].health = g.players[i].maxHealth

\* C35: players that enter the game with 1 <= health <= maxHealth keep
\* 1 <= health <= maxHealth in every state, and after each pass of
\* handleCollisions: damage that would take the health to 0 or below costs
\* a life and restores maxHealth, also when it was the last life, and a
\* health power-up gives no more than maxHealth.
C35_HealthWithinLimits ==
  /\ healthWithinLimits(gameState)
  /\ passesRan =>
       /\ healthWithinLimits(lastTick.contact)
       /\ healthWithinLimits(lastTick.struck)
       /\ healthWithinLimits(lastTick.shot)
       /\ healthWithinLimits(lastTick.collected)

\* a run of handleCollisions in which an enemy bullet took the last life of
\* the first player, and the second player, at full health, collected a
\* health power-up
C35_Witness ==
  /\ passesRan
  /\ Len(lastTick.entered.players) = 2
  /\ lastTick.struck.players[1].isActive
  /\ lastTick.struck.players[1].lives = 1
  /\ ~lastTick.shot.players[1].isActive
  /\ lastTick.shot.players[1].lives = 0
  /\ lastTick.shot.players[1].health = lastTick.shot.players[1].maxHealth
  /\ \E k \in consumedPowerUps : lastTick.shot.powerUps[k].powerUpType = "health"
  /\ lastTick.collected.players[2].health = lastTick.collected.players[2].maxHealth

RECURSIVE pointsOf(_, _)
pointsOf(enemies, destroyed) ==
  IF destroyed = {} THEN 0
  ELSE LET j == CHOOSE x \in destroyed : TRUE
       IN enemies[j].points + pointsOf(enemies, destroyed \ {j})

\* C36: one run of handleCollisions adds to the score the points of each
\* enemy that the bullet x enemy pass destroyed, once, and nothing else:
\* nothing for an enemy destroyed by contact with a player, which no
\* bullet touches afterwards.  The player bullets spent are those that
\* took health from an enemy, the bullet that destroyed an enemy being
\* the last to do so (the enemy is left with a health above minus that
\* bullet's damage); a bullet that is still active lies on no active
\* enemy.
C36_ScoreOncePerEnemy ==
  passesRan =>
    LET T == lastTick
        byContact == destroyedIn(T.entered, T.contact)
        byBullets == destroyedIn(T.contact, T.struck)
        spent == spentIn(T.contact, T.struck, "player")
    IN /\ T.contact.score = T.entered.score
       /\ T.struck.score = T.contact.score + pointsOf(T.contact.enemies, byBullets)
       /\ T.collected.score = T.struck.score
       /\ \A j \in byContact : T.struck.enemies[j] = T.contact.enemies[j]
       /\ damageOf(T.contact.bullets, spent)
            = healthLost(T.contact.enemies, T.struck.enemies, Len(T.contact.enemies))
       /\ \A j \in byBullets :
            /\ T.struck.enemies[j].health <= 0
            /\ \E b \in spent :
                 T.struck.enemies[j].health + T.contact.bullets[b].damage > 0
       /\ \A j \in 1..Len(T.struck.enemies) :
            j \notin byBullets => (T.struck.enemies[j].isActive = T.contact.enemies[j].isActive)
       /\ noneLeftOn(T.struck.bullets, T.struck.enemies, "player")

\* a run in which a heavy enemy was destroyed by contact and a basic enemy
\* by the first of two bullets that lay on it: the score went up by the
\* 100 points of the basic enemy, and the second bullet is still active
\* where the enemy was
C36_Witness ==
  /\ passesRan
  /\ Len(lastTick.entered.enemies) = 2
  /\ destroyedIn(lastTick.entered, lastTick.contact) = {1}
  /\ destroyedIn(lastTick.contact, lastTick.struck) = {2}
  /\ lastTick.collected.score = lastTick.entered.score + 100
  /\ Len(lastTick.entered.bullets) = 2
  /\ spentIn(lastTick.contact, lastTick.struck, "player") = {1}
  /\ lastTick.collected.bullets[2].isActive
  /\ lastTick.collected.bullets[2].position = lastTick.collected.enemies[2].position

\* C37: whatever the order of startGame, pauseGame, resumeGame, stopGame
\* and update ticks, isPaused is true exactly when gameStatus is PAUSED.
C37_PausedFlagMatchesStatus ==
  gameState.isPaused <=> gameState.gameStatus = "paused"

\* C38 as stated: whatever the order of update, reset and setDifficulty,
\* 0 <= enemiesInCurrentWave <= maxEnemiesPerWave.
C38_CountWithinQuota ==
  /\ 0 <= enemySpawner.enemiesInCurrentWave
  /\ enemySpawner.enemiesInCurrentWave <= enemySpawner.maxEnemiesPerWave

\* C38 as the code has it: enemiesInCurrentWave is never negative; a call
\* of update or reset that changes it leaves it within the quota, and an
\* update that finds it at or above the quota returns no regular enemy;
\* it is above the quota only after setDifficulty has lowered
\* maxEnemiesPerWave below it, and stays there until the next wave or
\* the next reset or setDifficulty.
C38_CountWithinQuotaUnlessLowered ==
  [][/\ 0 <= enemySpawner'.enemiesInCurrentWave
     /\ (enemySpawner'.enemiesInCurrentWave # enemySpawner.enemiesInCurrentWave)
          => enemySpawner'.enemiesInCurrentWave <= enemySpawner'.maxEnemiesPerWave
     /\ (/\ enemySpawner'.enemiesInCurrentWave > enemySpawner'.maxEnemiesPerWave
         /\ enemySpawner.enemiesInCurrentWave <= enemySpawner.maxEnemiesPerWave)
          => /\ lastCall'.name = "setDifficulty"
             /\ enemySpawner'.maxEnemiesPerWave < enemySpawner.maxEnemiesPerWave
     /\ (/\ lastSpawn'.called
         /\ enemySpawner'.enemiesInCurrentWave >= enemySpawner'.maxEnemiesPerWave
         /\ enemySpawner'.enemiesInCurrentWave = enemySpawner.enemiesInCurrentWave)
          => \A i \in 1..Len(lastSpawn'.newEnemies) :
               lastSpawn'.newEnemies[i].enemyType = "boss"]_vars

\* a call of update that returned nothing in wave 1, where setDifficulty
\* had lowered the quota to 3 after 5 enemies were spawned
C38_Witness ==
  /\ lastSpawn.called
  /\ lastSpawn.newEnemies = <<>>
  /\ enemySpawner.waveNumber = 1
  /\ enemySpawner.enemiesInCurrentWave = 5
  /\ enemySpawner.maxEnemiesPerWave = 3
  /\ (DateNow - enemySpawner.lastSpawnTime) * Milli > enemySpawner.spawnInterval

====
